---- MODULE Spec2Model ----
(***************************************************************************)
(* A model of the Deoxys / Madara node core: the L1 -> L2 messaging        *)
(* worker, the class database, the service contexts and supervisor, and    *)
(* the L1 gas price worker.  Each subsystem has its own specification      *)
(* (SpecMsg, SpecClass, SpecSvc, SpecGas); the variables of the other      *)
(* subsystems stay at their initial value under it.                        *)
(***************************************************************************)
EXTENDS Integers, Sequences, FiniteSets, TLC

(***************************************************************************)
(* Bounds of the model.                                                    *)
(***************************************************************************)
MaxEvents == 3
MaxNonce == 2
MaxRuns == 3
MaxBlockN == 2
MaxCtxs == 4
MaxSends == 2
MaxTime == 12
MaxNodeState == 4
PollTime == 1
MaxHistory == 2
MaxStarts == 3
MaxImportRuns == 2
MaxTrieBlock == 2
MaxTrieNonce == 2
MaxStorageValue == 1
ClassHashA == 7
FieldElementZero == 0
NonceDefault == 0
NumCallers == 3
MaxAdvCalls == 5
\* u8::MAX
U8Max == 255
NumTasks == 3
MaxSuccesses == 2
MaxInUse == 2
InUseMalusThreshold == 16
InUseMalusFactor == 10
SuccessesFloor == 5
FailureWeight == 10
EvictFailures == 5
MaxSegments == 3
MaxChainLen == 2

\* Option<T>: None, or Some(x)
None == <<>>
Some(x) == <<x>>

VARIABLES
    \* ---- L1 -> L2 messaging (settlement_client/src/messaging.rs) ----
    l1Log,          \* the LogMessageToL2 events of the settlement layer, in order
    l1Cancelled,    \* message hashes with a nonzero cancellation timestamp on L1
    nonces,         \* backend column L1MessagingNonces
    cursor,         \* backend value LastSyncedEventBlock
    mempool,        \* L1-handler transactions the mempool accepted, by nonce
    attempts,       \* calls of tx_accept_l1_handler, per nonce
    pc,             \* where the sync worker is: idle, next (at stream.next()), query
    pos,            \* index in l1Log of the next item of the event stream
    runs,           \* calls of sync so far
    result,         \* what the last call of sync returned
    hashCalls,      \* calls of get_messaging_hash
    cancelCalls,    \* calls of get_l1_to_l2_message_cancellations
    lastOutcome,    \* what the last loop iteration did with its event
    \* ---- class database (client/db/src/class_db.rs) ----
    classDb,        \* the columns ClassInfo, ClassCompiled, PendingClassInfo, PendingClassCompiled
    declaredIn,     \* the classes each stored block declared (None: block not stored)
    clearPc,        \* class_db_clear_pending: idle, or info_cleared between its two deletes
    \* ---- service contexts (primitives/utils/src/service.rs) ----
    tokParent,      \* the cancellation tokens: the parent of each (0: none); token 1 is token_global
    tokCancelled,   \* the cancelled tokens
    ctxs,           \* the ServiceContext values alive, in order of creation
    services,       \* MadaraServiceMask: the AtomicU8 the contexts share
    nodeState,      \* MadaraState: the AtomicU8 the contexts share
    added,          \* the ids given to service_add and not to service_remove since
    \* ---- a supervised service (ServiceRunner::service_loop) ----
    taskPc,         \* the spawned task: none, spawned (not polled yet), running, ended, joined
    taskEnd,        \* how the task ended: runner_ok, runner_err, forced, aborted
    stopperPc,      \* the stopper future: init, waiting (in cancelled()), sleeping, done
    rxQueue,        \* the broadcast messages the stopper's receiver has not read yet
    rxLagged,       \* the receiver lost messages: its next recv() is Err(Lagged)
    deadline,       \* when the sleep of the stopper is over
    now,            \* the time, in seconds
    cancelledAt,    \* when the running service was cancelled (None: it was not)
    sends,          \* messages sent on service_update_sender so far
    \* ---- L1 gas price worker (gas_price_worker) ----
    gasPc,          \* the worker: init, fetch, metrics, check, sleep, done
    gasOutcome,     \* running, returned, panic_stale, panic_div
    gas_price,      \* the shared GasPrices
    lastUpdateTs,   \* LAST_UPDATE_TIMESTAMP
    clock,          \* SystemTime::now(), in clock units (poll_time is PollTime of them)
    wakeAt,         \* when the sleep of the worker is over
    infinite_loop,  \* the argument of gas_price_worker
    updateResult,   \* what the last update_gas_price returned: none, ok, err
    startedAt,      \* when the worker started
    lastLanded,     \* when prices last landed in gas_price (None: never)
    gasLock,        \* who holds the mutex of gas_price: free, worker
    lastFeeHistory, \* the fee history of the last update of the prices (None: none yet)
    \* ---- the supervisor (ServiceMonitor) ----
    registry,       \* ServiceMonitor::services: the slots of the registered services
    statusActual,   \* ServiceMonitor::status_actual
    running,        \* the ids of the services whose task is running
    joinSet,        \* the tasks that ended and were not joined yet: <<id, how>>
    monPc,          \* start: init, loop, returned_ok, returned_err, panicked
    monSubscribed,  \* the context of start has its receiver
    monRx,          \* the messages that receiver has not read yet
    monSends,       \* messages sent so far
    lastJoin,       \* the last task joined: how it ended and what start did
    lastMsg,        \* the last message start handled and what it did
    \* ---- the Service implementations ----
    implObj,        \* the service objects: their start parameters, enabled
    implTask,       \* the task of each service: none, running, ended
    implLog,        \* the calls of Service::start so far and what they returned
    \* ---- bulk class import ----
    impBase,        \* the database before the import
    impBlock,       \* the block id the classes are imported into
    impClasses,     \* the classes of the import
    impState,       \* new, failed, done (first run went through), rerun_done
    impRuns,        \* the runs of the import so far
    \* ---- contract trie (sync/src/commitments/lib.rs) ----
    trieBlock,      \* the last block committed to the tries
    storageTrie,    \* contract storage trie: the storage of each contract
    contractTrie,   \* contract trie: the leaf of each contract, None without one
    classHashOf,    \* class hash of each contract as of the last block
    nonceOf,        \* nonce of each contract as of the last block
    lastCsd,        \* the state diff of the last block committed
    \* ---- JSON-RPC methods over a stored chain ----
    chain,          \* the confirmed blocks, block number n at index n + 1
    pendingBlock,   \* the pending block (None: none)
    l1_last_confirmed, \* the last block confirmed on L1 as the backend holds it (None: not written)
    rpcLast,        \* the call being answered: method, request, response (None: none)
    \* ---- gateway HTTP router ----
    gwConfig,       \* feeder_gateway_enable and gateway_enable
    httpLast,       \* the request being answered: method, path, response (None: none)
    \* ---- peer set of the P2P sync ----
    debug_assertions, \* whether the build evaluates debug_assert!
    queue,          \* PeerSetInner.queue: entries [peer_id, score]
    stats_by_peer,  \* PeerSetInner.stats_by_peer: peer -> PeerStats
    peerOutcome,    \* "running" or "panicked"
    lastNext,       \* the last answer of next_peer and the set it was taken from
    \* ---- mutexes of the peer set ----
    lockPc,         \* task -> where it is in next_peer or peer_operation_*
    get_more_peers_mutex, \* the task holding PeerSet.get_more_peers_mutex (NoTask: free)
    inner_mutex,    \* the task holding PeerSet.inner (NoTask: free)
    lockOrder,      \* task -> the mutexes it holds, in the order it took them
    \* ---- state_advance under concurrent callers ----
    advState,       \* ServiceContext.state: the shared AtomicU8
    advLoaded,      \* caller -> the value it is about to store (None: not in a call)
    advDone,        \* number of calls of state_advance that returned
    advMax,         \* the highest value the state has had
    \* ---- history of the service contexts ----
    svcRemoved,     \* the ids service_remove was called with
    \* ---- update_state_root ----
    cmCsd,          \* the CommitmentStateDiff of the block (without the declared classes)
    cmDeclared,     \* csd.class_hash_to_compiled_class_hash
    cmPc,           \* where contract_trie_root and class_trie_root are
    cmHandles,      \* trie -> "write" while a write handle of it is alive, else "free"
    cmStorage,      \* the contract storage trie
    cmClassTrie,    \* the class trie
    cmResult,       \* None, Some(Ok(state root)) or Some(Err("panic"))
    \* ---- store_classes called for several blocks in parallel ----
    parDeclares,    \* block number -> the classes the block declares
    parPc,          \* block number -> where its store_classes call is
    parIgnore,      \* block number -> the ignore_class set its call computed
    parOverlap,     \* some call made its check while another was between check and write
    \* ---- the timestamp across one update_gas_price call ----
    tsAtCall        \* LAST_UPDATE_TIMESTAMP when the last update_gas_price call began

msgVars == <<l1Log, l1Cancelled, nonces, cursor, mempool, attempts, pc, pos, runs,
             result, hashCalls, cancelCalls, lastOutcome>>

clsVars == <<classDb, declaredIn, clearPc>>

ctxVars == <<tokParent, tokCancelled, ctxs, services, nodeState, added>>

svcVars == <<taskPc, taskEnd, stopperPc, rxQueue, rxLagged, deadline, now, cancelledAt, sends>>

gasVars == <<gasPc, gasOutcome, gas_price, lastUpdateTs, clock, wakeAt, infinite_loop,
             updateResult, startedAt, lastLanded, gasLock, lastFeeHistory>>

monVars == <<registry, statusActual, running, joinSet, monPc, monSubscribed, monRx, monSends,
             lastJoin, lastMsg>>

implVars == <<implObj, implTask, implLog>>

impVars == <<impBase, impBlock, impClasses, impState, impRuns>>

trieVars == <<trieBlock, storageTrie, contractTrie, classHashOf, nonceOf, lastCsd>>

rpcVars == <<chain, pendingBlock, l1_last_confirmed, rpcLast>>

gwVars == <<gwConfig, httpLast>>

peerVars == <<debug_assertions, queue, stats_by_peer, peerOutcome, lastNext>>

lockVars == <<lockPc, get_more_peers_mutex, inner_mutex, lockOrder>>

advVars == <<advState, advLoaded, advDone, advMax>>

histVars == <<svcRemoved>>

cmVars == <<cmCsd, cmDeclared, cmPc, cmHandles, cmStorage, cmClassTrie, cmResult>>

parVars == <<parDeclares, parPc, parIgnore, parOverlap>>

tsVars == <<tsAtCall>>

vars == <<msgVars, clsVars, ctxVars, svcVars, gasVars, monVars, implVars, impVars, trieVars, rpcVars, gwVars, peerVars, lockVars, advVars, histVars, cmVars, parVars, tsVars>>

(***************************************************************************)
(* L1 -> L2 messaging                                                      *)
(***************************************************************************)
Nonces == 1..MaxNonce
Blocks == {0, 1}
EventIdxs == {0, 1, 2, 3}

\* CommonMessagingEventData, reduced to the fields sync reads.  event_index is
\* an Option<u64>; the Ethereum stream always fills it.
EventData ==
    [block_number : Blocks, event_index : {Some(i) : i \in EventIdxs} \cup {None},
     nonce : Nonces]

\* event_data.event_index.unwrap_or(0)
UnwrapOr0(x) == IF x = None THEN 0 ELSE x[1]

\* LastSyncedEventBlock::new(block_number, event_index)
LastSyncedEventBlock(b, i) == [block_number |-> b, event_index |-> i]

\* (block_number, event_index) order
PosLeq(a, b) ==
    \/ a.block_number < b.block_number
    \/ a.block_number = b.block_number /\ a.event_index <= b.event_index

EventPos(ev) == LastSyncedEventBlock(ev.block_number, UnwrapOr0(ev.event_index))

\* The log index of the k-th event: its rank among the events of its block.
IdxInBlock(bs, k) == Cardinality({j \in 1..(k - 1) : bs[j] = bs[k]})

\* The logs the settlement layer can hold: blocks never decrease along the log.
L1Logs ==
    UNION { { [k \in 1..len |-> [block_number |-> bs[k],
                                  event_index |-> Some(IdxInBlock(bs, k)),
                                  nonce |-> ns[k]]] :
                bs \in {b \in [1..len -> Blocks] :
                            \A k \in 1..len : k > 1 => b[k - 1] <= b[k]},
                ns \in [1..len -> Nonces] } : len \in 0..MaxEvents }

\* The message hash of an event (get_messaging_hash): one hash per L1 message,
\* and the L1 nonce is what tells two messages apart here.
MessagingHash(ev) == <<"msg", ev.nonce>>

\* get_l1_to_l2_message_cancellations(hash): zero unless the message was cancelled
CancellationTimestamp(h) == IF h \in l1Cancelled THEN 12345 ELSE 0

\* get_messaging_stream(last_synced_event_block): the events from the block of
\* the cursor on, in log order.
StreamStart(log, cur) ==
    LET later == {k \in 1..Len(log) : log[k].block_number >= cur.block_number}
    IN IF later = {} THEN Len(log) + 1
       ELSE CHOOSE k \in later : \A j \in later : k <= j

CountIn(seq, n) == Cardinality({k \in 1..Len(seq) : seq[k] = n})

handle_cancelled_message_NoBurn(ns, n) == ns

\* handle_cancelled_message: burn the nonce
handle_cancelled_message(ns, n) == IF n \in ns THEN ns ELSE ns \cup {n}

process_message_NoRecord(ns, mp, att, ev, accept) ==
    IF ev.nonce \in ns
    THEN [res |-> "none", nonces |-> ns, mempool |-> mp, attempts |-> att]
    ELSE [res |-> IF accept THEN "some" ELSE "err",
          nonces |-> ns,
          mempool |-> IF accept THEN Append(mp, ev.nonce) ELSE mp,
          attempts |-> [att EXCEPT ![ev.nonce] = @ + 1]]

\* process_message: record the nonce, then hand the transaction to the mempool.
\* accept: whether tx_accept_l1_handler returns Ok.
process_message(ns, mp, att, ev, accept) ==
    IF ev.nonce \in ns
    THEN [res |-> "none", nonces |-> ns, mempool |-> mp, attempts |-> att]
    ELSE [res |-> IF accept THEN "some" ELSE "err",
          nonces |-> ns \cup {ev.nonce},
          mempool |-> IF accept THEN Append(mp, ev.nonce) ELSE mp,
          attempts |-> [att EXCEPT ![ev.nonce] = @ + 1]]

cursor_after_Always(cur, ev, res) ==
    LastSyncedEventBlock(ev.block_number, UnwrapOr0(ev.event_index))

cursor_after_Swapped(cur, ev, res) ==
    IF res = "some"
    THEN LastSyncedEventBlock(UnwrapOr0(ev.event_index), ev.block_number)
    ELSE cur

\* The match on the result of process_message in sync: the cursor moves to the
\* event on Ok(Some(tx_hash)) and stays on Ok(None) and on Err.
cursor_after(cur, ev, res) ==
    IF res = "some"
    THEN LastSyncedEventBlock(ev.block_number, UnwrapOr0(ev.event_index))
    ELSE cur

MsgInit ==
    /\ l1Log \in L1Logs
    /\ l1Cancelled = {}
    /\ nonces = {}
    /\ cursor = LastSyncedEventBlock(0, 0)
    /\ mempool = <<>>
    /\ attempts = [n \in Nonces |-> 0]
    /\ pc = "idle"
    /\ pos = 1
    /\ runs = 0
    /\ result = "none"
    /\ hashCalls = 0
    /\ cancelCalls = 0
    /\ lastOutcome = "none"

\* The settlement layer cancels a message (startL1ToL2MessageCancellation).
l1_cancel ==
    /\ \E n \in Nonces \ {h[2] : h \in l1Cancelled} :
          l1Cancelled' = l1Cancelled \cup {<<"msg", n>>}
    /\ UNCHANGED <<l1Log, nonces, cursor, mempool, attempts, pc, pos, runs, result,
                   hashCalls, cancelCalls, lastOutcome>>

\* sync, up to its loop: read the cursor and open the stream there.
sync_start ==
    /\ pc = "idle"
    /\ runs < MaxRuns
    /\ runs' = runs + 1
    /\ pos' = StreamStart(l1Log, cursor)
    /\ pc' = "next"
    /\ result' = "running"
    /\ lastOutcome' = "none"
    /\ UNCHANGED <<l1Log, l1Cancelled, nonces, cursor, mempool, attempts,
                   hashCalls, cancelCalls>>

\* One event off the stream: the duplicate check, the message hash, and the
\* cancellation query sent to the settlement layer.
sync_next_event ==
    /\ pc = "next"
    /\ pos <= Len(l1Log)
    /\ LET ev == l1Log[pos] IN
         IF ev.nonce \in nonces
         THEN \* "Event already processed": return Ok(())
              /\ pc' = "idle"
              /\ result' = "ok"
              /\ lastOutcome' = "already"
              /\ UNCHANGED <<hashCalls, cancelCalls, pos>>
         ELSE /\ hashCalls' = hashCalls + 1
              /\ cancelCalls' = cancelCalls + 1
              /\ pc' = "query"
              /\ lastOutcome' = "checking"
              /\ UNCHANGED <<result, pos>>
    /\ UNCHANGED <<l1Log, l1Cancelled, nonces, cursor, mempool, attempts, runs>>

\* The answer to the cancellation query, and the rest of the iteration.
sync_handle_event ==
    /\ pc = "query"
    /\ LET ev == l1Log[pos] IN
         IF CancellationTimestamp(MessagingHash(ev)) # 0
         THEN /\ nonces' = handle_cancelled_message(nonces, ev.nonce)
              /\ pc' = "idle"
              /\ result' = "ok"
              /\ lastOutcome' = "cancelled"
              /\ UNCHANGED <<cursor, mempool, attempts, pos>>
         ELSE \E accept \in BOOLEAN :
                LET r == process_message(nonces, mempool, attempts, ev, accept) IN
                  /\ nonces' = r.nonces
                  /\ mempool' = r.mempool
                  /\ attempts' = r.attempts
                  /\ cursor' = cursor_after(cursor, ev, r.res)
                  /\ IF r.res = "some"
                     THEN /\ pc' = "next"
                          /\ pos' = pos + 1
                          /\ lastOutcome' = "submitted"
                          /\ UNCHANGED result
                     ELSE IF r.res = "none"
                     THEN /\ pc' = "next"
                          /\ pos' = pos + 1
                          /\ lastOutcome' = "duplicate"
                          /\ UNCHANGED result
                     ELSE /\ pc' = "idle"
                          /\ result' = "err"
                          /\ lastOutcome' = "mempool_err"
                          /\ UNCHANGED pos
    /\ UNCHANGED <<l1Log, l1Cancelled, runs, hashCalls, cancelCalls>>

\* The stream item is an error, or the event does not parse: sync returns it.
sync_event_error ==
    /\ pc = "next"
    /\ pc' = "idle"
    /\ result' = "err"
    /\ lastOutcome' = "stream_err"
    /\ UNCHANGED <<l1Log, l1Cancelled, nonces, cursor, mempool, attempts, pos, runs,
                   hashCalls, cancelCalls>>

\* The cancellation query fails: sync returns the error.
sync_query_error ==
    /\ pc = "query"
    /\ pc' = "idle"
    /\ result' = "err"
    /\ lastOutcome' = "query_err"
    /\ UNCHANGED <<l1Log, l1Cancelled, nonces, cursor, mempool, attempts, pos, runs,
                   hashCalls, cancelCalls>>

\* The context is cancelled while sync waits for the stream (run_until_cancelled
\* yields None), or the stream is over (next() yields None): the loop ends.
sync_loop_exit ==
    /\ pc = "next"
    /\ pc' = "idle"
    /\ result' = "ok"
    /\ lastOutcome' = "exit"
    /\ UNCHANGED <<l1Log, l1Cancelled, nonces, cursor, mempool, attempts, pos, runs,
                   hashCalls, cancelCalls>>

\* The task is dropped while it waits for the cancellation query.
sync_dropped ==
    /\ pc = "query"
    /\ pc' = "idle"
    /\ result' = "dropped"
    /\ lastOutcome' = "dropped"
    /\ UNCHANGED <<l1Log, l1Cancelled, nonces, cursor, mempool, attempts, pos, runs,
                   hashCalls, cancelCalls>>

\* The messaging worker at rest, for the specifications of the other subsystems.
MsgIdle ==
    /\ l1Log = <<>>
    /\ l1Cancelled = {}
    /\ nonces = {}
    /\ cursor = LastSyncedEventBlock(0, 0)
    /\ mempool = <<>>
    /\ attempts = [n \in Nonces |-> 0]
    /\ pc = "idle"
    /\ pos = 1
    /\ runs = 0
    /\ result = "none"
    /\ hashCalls = 0
    /\ cancelCalls = 0
    /\ lastOutcome = "none"

(***************************************************************************)
(* Class database                                                          *)
(***************************************************************************)
Classes == {"cA", "cB"}
BlockNs == 0..MaxBlockN

\* DbBlockId
BlockN(n) == <<"BlockN", n>>
Pending == <<"Pending">>
is_pending_Never(id) == FALSE
is_pending(id) == id = Pending

\* ClassInfoWithBlockNumber
ClassInfoWithBlockNumber(info, id) == [class_info |-> info, block_id |-> id]

\* A column is a function from the keys it holds to their values.
EmptyCol == [k \in {} |-> None]
PutCf(col, key, val) == [k \in DOMAIN col \cup {key} |-> IF k = key THEN val ELSE col[k]]

\* class_db_get_encoded_kv: the pending column first when the id is pending,
\* then the non-pending column.
class_db_get_encoded_kv(db, pending, key, pending_col, nonpending_col) ==
    IF pending /\ key \in DOMAIN db[pending_col]
    THEN Some(db[pending_col][key])
    ELSE IF key \in DOMAIN db[nonpending_col]
         THEN Some(db[nonpending_col][key])
         ELSE None

get_class_info_Strict(db, requested_id, class_hash) ==
    LET got == class_db_get_encoded_kv(db, is_pending(requested_id), class_hash,
                                       "PendingClassInfo", "ClassInfo")
    IN IF got = None THEN None
       ELSE LET info == got[1]
                valid == IF requested_id = Pending THEN TRUE
                         ELSE IF info.block_id # Pending
                              THEN info.block_id[2] < requested_id[2]
                              ELSE FALSE
            IN IF valid THEN Some(info.class_info) ELSE None

\* get_class_info, for a resolved DbBlockId
get_class_info(db, requested_id, class_hash) ==
    LET got == class_db_get_encoded_kv(db, is_pending(requested_id), class_hash,
                                       "PendingClassInfo", "ClassInfo")
    IN IF got = None THEN None
       ELSE LET info == got[1]
                valid == IF requested_id = Pending THEN TRUE
                         ELSE IF info.block_id # Pending
                              THEN info.block_id[2] <= requested_id[2]
                              ELSE FALSE
            IN IF valid THEN Some(info.class_info) ELSE None

RECURSIVE PutAll(_, _, _)
PutAll(col, keys, val) ==
    IF keys = {} THEN col
    ELSE LET k == CHOOSE x \in keys : TRUE
         IN PutAll(PutCf(col, k, val[k]), keys \ {k}, val)

store_classes_NoIgnore(db, block_id, class_infos, class_compiled, col_info, col_compiled) ==
    [db EXCEPT
       ![col_info] = PutAll(@, class_infos,
                            [k \in class_infos |-> ClassInfoWithBlockNumber(k, block_id)]),
       ![col_compiled] = PutAll(@, class_compiled,
                                [k \in class_compiled |-> <<"compiled", k>>])]

\* store_classes: the classes already visible at the block are left alone, the
\* others are written with the block id at hand.
store_classes(db, block_id, class_infos, class_compiled, col_info, col_compiled) ==
    LET ignore_class ==
            IF block_id # Pending
            THEN {k \in class_infos : get_class_info(db, block_id, k) # None}
            ELSE {}
    IN [db EXCEPT
          ![col_info] = PutAll(@, class_infos \ ignore_class,
                               [k \in class_infos |-> ClassInfoWithBlockNumber(k, block_id)]),
          ![col_compiled] = PutAll(@, class_compiled \ ignore_class,
                                   [k \in class_compiled |-> <<"compiled", k>>])]

StoredBlocks == {b \in BlockNs : declaredIn[b] # None}

ClsInit ==
    /\ classDb = [ClassInfo |-> EmptyCol, ClassCompiled |-> EmptyCol,
                  PendingClassInfo |-> EmptyCol, PendingClassCompiled |-> EmptyCol]
    /\ declaredIn = [b \in BlockNs |-> None]
    /\ clearPc = "idle"

ClsIdle == ClsInit

\* class_db_store_block: the classes a confirmed block declares; blocks are
\* converted in parallel and may be stored in any order.
class_db_store_block ==
    \E block_number \in BlockNs \ StoredBlocks, cs \in SUBSET Classes :
        /\ classDb' = store_classes(classDb, BlockN(block_number), cs, cs,
                                    "ClassInfo", "ClassCompiled")
        /\ declaredIn' = [declaredIn EXCEPT ![block_number] = Some(cs)]
        /\ clearPc = "idle"
        /\ UNCHANGED clearPc

\* class_db_store_pending: the classes the pending block declares
class_db_store_pending ==
    \E cs \in (SUBSET Classes) \ {{}} :
        /\ classDb' = store_classes(classDb, Pending, cs, cs,
                                    "PendingClassInfo", "PendingClassCompiled")
        /\ clearPc = "idle"
        /\ UNCHANGED <<declaredIn, clearPc>>

\* delete_range_cf_opt(col, [], LAST_KEY): the column is emptied
delete_range_cf_opt(db, col) == [db EXCEPT ![col] = EmptyCol]

\* class_db_clear_pending, its first write: PendingClassInfo is emptied
class_db_clear_pending ==
    /\ clearPc = "idle"
    /\ DOMAIN classDb.PendingClassInfo \cup DOMAIN classDb.PendingClassCompiled # {}
    /\ classDb' = delete_range_cf_opt(classDb, "PendingClassInfo")
    /\ clearPc' = "info_cleared"
    /\ UNCHANGED declaredIn

\* class_db_clear_pending, its second write: PendingClassCompiled is emptied
class_db_clear_pending_compiled ==
    /\ clearPc = "info_cleared"
    /\ classDb' = delete_range_cf_opt(classDb, "PendingClassCompiled")
    /\ clearPc' = "idle"
    /\ UNCHANGED declaredIn

(***************************************************************************)
(* Bulk class import: store_classes with failing writes                    *)
(***************************************************************************)
\* store_classes when writes can fail.  Each class is a chunk of its own;
\* w_info and w_compiled are the chunks whose write_opt went through.  The
\* first pass returns its error before the second pass starts.
store_classes_partial(db, block_id, class_infos, class_compiled, col_info, col_compiled, w_info, w_compiled) ==
    LET ignore_class ==
            IF block_id # Pending
            THEN {k \in class_infos : get_class_info(db, block_id, k) # None}
            ELSE {}
        db1 == [db EXCEPT
                  ![col_info] = PutAll(@, w_info \ ignore_class,
                                       [k \in class_infos |->
                                           ClassInfoWithBlockNumber(k, block_id)])]
        db2 == [db1 EXCEPT
                  ![col_compiled] = PutAll(@, w_compiled \ ignore_class,
                                           [k \in class_compiled |-> <<"compiled", k>>])]
    IN IF w_info # class_infos THEN [db |-> db1, res |-> "err"]
       ELSE IF w_compiled # class_compiled THEN [db |-> db2, res |-> "err"]
       ELSE [db |-> db2, res |-> "ok"]

\* The columns an import into a block id writes
ColInfoOf(block_id) == IF block_id = Pending THEN "PendingClassInfo" ELSE "ClassInfo"
ColCompiledOf(block_id) == IF block_id = Pending THEN "PendingClassCompiled" ELSE "ClassCompiled"

EmptyDb == [ClassInfo |-> EmptyCol, ClassCompiled |-> EmptyCol,
            PendingClassInfo |-> EmptyCol, PendingClassCompiled |-> EmptyCol]

\* Block 0 is stored, with any classes; the import is that of the classes of a
\* later block or of the pending block.
ImpInit ==
    /\ \E cs0 \in SUBSET Classes :
          impBase = store_classes(EmptyDb, BlockN(0), cs0, cs0, "ClassInfo", "ClassCompiled")
    /\ classDb = impBase
    /\ declaredIn = [b \in BlockNs |-> None]
    /\ clearPc = "idle"
    /\ impBlock \in {BlockN(b) : b \in BlockNs \ {0}} \cup {Pending}
    /\ impClasses \in (SUBSET Classes) \ {{}}
    /\ impState = "new"
    /\ impRuns = 0

ImpIdle ==
    /\ impBase = EmptyDb
    /\ impBlock = Pending
    /\ impClasses = {}
    /\ impState = "new"
    /\ impRuns = 0

\* One run of the import: store_classes with the same arguments, some of its
\* writes failing or none.
import_run ==
    /\ impState \in {"new", "failed"}
    /\ impRuns < MaxImportRuns
    /\ impRuns' = impRuns + 1
    /\ \E w_info \in SUBSET impClasses, w_compiled \in SUBSET impClasses :
          LET r == store_classes_partial(classDb, impBlock, impClasses, impClasses,
                                         ColInfoOf(impBlock), ColCompiledOf(impBlock),
                                         w_info, w_compiled)
          IN /\ classDb' = r.db
             /\ impState' = IF r.res = "ok"
                            THEN (IF impState = "failed" THEN "rerun_done" ELSE "done")
                            ELSE "failed"
    /\ UNCHANGED <<declaredIn, clearPc, impBase, impBlock, impClasses>>

ImpFrame == UNCHANGED <<msgVars, ctxVars, svcVars, gasVars, monVars, implVars, trieVars, rpcVars, gwVars, peerVars, lockVars, advVars, histVars, cmVars, parVars, tsVars>>

NextImport ==
    \/ import_run /\ ImpFrame

(***************************************************************************)
(* Contract trie: commitments/lib.rs contract_trie_root                    *)
(***************************************************************************)
Contracts == {"a1", "a2"}
StorageKeys == {"k1"}
StorageValues == 1..MaxStorageValue
DeployedClassHashes == {ClassHashA}
TrieNonces == 1..MaxTrieNonce
TrieBlocks == 1..MaxTrieBlock

\* Pedersen hash of two elements, taken as injective
PedersenHasher_hash_elements(a, b) == <<"pedersen", a, b>>

\* The root of a contract's storage trie stands for its whole content
storage_root_of(storage) == <<"root", storage>>

\* CommitmentStateDiff: each of the three maps gives an Option for an address
CommitmentStateDiffs ==
    [address_to_class_hash : [Contracts -> {None} \cup {Some(h) : h \in DeployedClassHashes}],
     address_to_nonce      : [Contracts -> {None} \cup {Some(n) : n \in TrieNonces}],
     storage_updates       : [Contracts -> {None} \cup {Some(u) : u \in [StorageKeys -> StorageValues]}]]

EmptyCsd ==
    [address_to_class_hash |-> [c \in Contracts |-> None],
     address_to_nonce      |-> [c \in Contracts |-> None],
     storage_updates       |-> [c \in Contracts |-> None]]

\* class_hash: the hash the diff deploys, else the one the class hash store has
\* for the contract at the block, else ZERO
class_hash(csd, contract_address, handler_class_hash) ==
    IF csd.address_to_class_hash[contract_address] # None
    THEN csd.address_to_class_hash[contract_address][1]
    ELSE handler_class_hash[contract_address]

\* The nonce that goes in the leaf: that of the diff, else Nonce::default()
leaf_nonce_Kept(csd, contract_address, nonce_before) ==
    IF csd.address_to_nonce[contract_address] # None
    THEN csd.address_to_nonce[contract_address][1]
    ELSE nonce_before
leaf_nonce(csd, contract_address, nonce_before) ==
    IF csd.address_to_nonce[contract_address] # None
    THEN csd.address_to_nonce[contract_address][1]
    ELSE NonceDefault

contract_state_leaf_hash(csd, contract_address, storage_root, handler_class_hash, nonce_before) ==
    LET h1 == PedersenHasher_hash_elements(
                  class_hash(csd, contract_address, handler_class_hash), storage_root)
        h2 == PedersenHasher_hash_elements(h1, leaf_nonce(csd, contract_address, nonce_before))
    IN PedersenHasher_hash_elements(h2, FieldElementZero)

\* The contracts whose leaf contract_trie_root writes
leaf_addresses_Touched(csd) ==
    {c \in Contracts : \/ csd.storage_updates[c] # None
                       \/ csd.address_to_nonce[c] # None
                       \/ csd.address_to_class_hash[c] # None}
leaf_addresses(csd) == {c \in Contracts : csd.storage_updates[c] # None}

\* storage_write.insert for every update of the diff, then commit
storage_after(storage, csd) ==
    [c \in Contracts |->
        IF csd.storage_updates[c] # None
        THEN [k \in StorageKeys |-> csd.storage_updates[c][1][k]]
        ELSE storage[c]]

\* contract_trie_root: the storage trie and the contract trie it leaves
contract_trie_root(csd, storage, leaves, handler_class_hash, nonces_before) ==
    LET st == storage_after(storage, csd)
    IN [storage |-> st,
        leaves  |-> [c \in Contracts |->
                       IF c \in leaf_addresses(csd)
                       THEN Some(contract_state_leaf_hash(csd, c, storage_root_of(st[c]),
                                                          handler_class_hash, nonces_before))
                       ELSE leaves[c]]]

TrieInit ==
    /\ trieBlock = 0
    /\ storageTrie = [c \in Contracts |-> [k \in StorageKeys |-> 0]]
    /\ contractTrie = [c \in Contracts |-> None]
    /\ classHashOf = [c \in Contracts |-> FieldElementZero]
    /\ nonceOf = [c \in Contracts |-> NonceDefault]
    /\ lastCsd = EmptyCsd

TrieIdle == TrieInit

\* A state diff the chain can produce for the next block: a deployment only of
\* an address without a class, nonces only going up, and changes only to
\* contracts that have a class once the diff is applied.
ValidCsd(csd) ==
    \A c \in Contracts :
        /\ csd.address_to_class_hash[c] # None => classHashOf[c] = FieldElementZero
        /\ csd.address_to_nonce[c] # None => csd.address_to_nonce[c][1] > nonceOf[c]
        /\ (csd.address_to_nonce[c] # None \/ csd.storage_updates[c] # None)
              => (classHashOf[c] # FieldElementZero \/ csd.address_to_class_hash[c] # None)

\* update_state_root for the next block.  classHashOf and nonceOf are the class
\* hash and the nonce of each contract as of the last block, as the state
\* stores hold them.
commit_block ==
    /\ trieBlock < MaxTrieBlock
    /\ \E csd \in CommitmentStateDiffs :
          /\ ValidCsd(csd)
          /\ LET r == contract_trie_root(csd, storageTrie, contractTrie, classHashOf, nonceOf)
             IN /\ storageTrie' = r.storage
                /\ contractTrie' = r.leaves
          /\ classHashOf' = [c \in Contracts |-> class_hash(csd, c, classHashOf)]
          /\ nonceOf' = [c \in Contracts |-> leaf_nonce_Kept(csd, c, nonceOf[c])]
          /\ lastCsd' = csd
    /\ trieBlock' = trieBlock + 1

TrieFrame == UNCHANGED <<msgVars, clsVars, ctxVars, svcVars, gasVars, monVars, implVars, impVars, rpcVars, gwVars, peerVars, lockVars, advVars, histVars, cmVars, parVars, tsVars>>

NextTrie ==
    \/ commit_block /\ TrieFrame

(***************************************************************************)
(* JSON-RPC read, trace and estimate methods over a stored chain           *)
(***************************************************************************)
RpcContracts == {"a1"}
UnknownContract == "a2"
StorageKeysRpc == {"k1", "k2"}
FeltZero == 0

\* StarknetVersion, a [u8; 4] compared in order
STARKNET_VERSION_0_13_1 == <<0, 13, 1, 0>>
STARKNET_VERSION_0_13_1_1 == <<0, 13, 1, 1>>
ProtocolVersions == {STARKNET_VERSION_0_13_1, STARKNET_VERSION_0_13_1_1}
FALLBACK_TO_SEQUENCER_WHEN_VERSION_BELOW == STARKNET_VERSION_0_13_1_1

VersionLt(a, b) ==
    \E i \in 1..4 : a[i] < b[i] /\ \A j \in 1..(i - 1) : a[j] = b[j]

\* BlockId of a request
Number(n) == <<"Number", n>>
Latest == <<"Latest">>
PendingTag == <<"PendingTag">>
BlockIds == {Number(n) : n \in 0..MaxChainLen} \cup {Latest, PendingTag}

\* The blocks of the chain, reduced to what the methods read: the protocol
\* version of the header, whether the block deploys contract a1, and whether
\* it writes key k1 of a1.  Every block has two transactions.
RpcBlocks == [protocol_version : ProtocolVersions, deploys : BOOLEAN, writes : BOOLEAN]
TxHash(n, i) == <<"tx", n, i>>
TxIndexes == {0, 1}
TxHashes == {TxHash(n, i) : n \in 0..MaxChainLen, i \in TxIndexes}

\* ---- the backend, from what the methods expect of it ----
\* The confirmed blocks with the pending block after them
BlocksUpTo(ch, pend, db_id) ==
    IF db_id = Pending THEN (IF pend = None THEN ch ELSE Append(ch, pend[1]))
    ELSE SubSeq(ch, 1, db_id[2] + 1)

\* resolve_db_block_id: None when the block is not stored
resolve_block_id(ch, pend, block_id) ==
    IF block_id = PendingTag THEN (IF pend = None THEN None ELSE Some(Pending))
    ELSE IF block_id = Latest THEN (IF Len(ch) = 0 THEN None ELSE Some(BlockN(Len(ch) - 1)))
    ELSE IF block_id[2] < Len(ch) THEN Some(BlockN(block_id[2])) ELSE None

contains_block(ch, pend, block_id) == resolve_block_id(ch, pend, block_id) # None

\* The class hash of a contract deployed at or before the block
get_contract_class_hash_at(ch, pend, db_id, contract_address) ==
    LET bs == BlocksUpTo(ch, pend, db_id)
    IN IF contract_address \in RpcContracts /\ \E i \in 1..Len(bs) : bs[i].deploys
       THEN Some(<<"class", contract_address>>)
       ELSE None

\* The last value written to the key at or before the block: block i writes i
get_contract_storage_at(ch, pend, db_id, contract_address, key) ==
    LET bs == BlocksUpTo(ch, pend, db_id)
        ws == {i \in 1..Len(bs) : bs[i].writes}
    IN IF contract_address \in RpcContracts /\ key = "k1" /\ ws # {}
       THEN Some(CHOOSE i \in ws : \A j \in ws : j <= i)
       ELSE None

\* MadaraMaybePendingBlockInfo of a stored block
get_block_info(ch, pend, block_id) ==
    LET r == resolve_block_id(ch, pend, block_id)
    IN IF r = None THEN None
       ELSE IF r[1] = Pending
       THEN Some([kind |-> "Pending", block_number |-> Len(ch),
                  protocol_version |-> pend[1].protocol_version])
       ELSE Some([kind |-> "NotPending", block_number |-> r[1][2],
                  protocol_version |-> ch[r[1][2] + 1].protocol_version])

\* find_tx_hash_block: the confirmed block holding the transaction and its index
find_tx_hash_block(ch, tx_hash) ==
    IF tx_hash[2] < Len(ch)
    THEN Some([block_number |-> tx_hash[2], tx_index |-> tx_hash[3],
               protocol_version |-> ch[tx_hash[2] + 1].protocol_version])
    ELSE None

\* The state the executor reads: what is deployed and stored as of on_top_of
\* (None: the empty state before genesis)
StateAsOf(ch, pend, on_top_of) ==
    IF on_top_of = None THEN [deployed |-> None, k1 |-> None]
    ELSE [deployed |-> get_contract_class_hash_at(ch, pend, on_top_of[1], "a1"),
          k1 |-> get_contract_storage_at(ch, pend, on_top_of[1], "a1", "k1")]

\* The fee estimate of a run is told by the state it runs on and the transaction
FeeEstimateOf(state, tx) == <<"fee", state, tx>>

\* ---- the methods ----
Err(e) == [ok |-> FALSE, err |-> e]
Ok(v) == [ok |-> TRUE, val |-> v]

get_storage_at_ContractFirst(ch, pend, contract_address, key, block_id) ==
    LET r == resolve_block_id(ch, pend, block_id)
        db_id == IF r = None THEN Pending ELSE r[1]
    IN IF get_contract_class_hash_at(ch, pend, db_id, contract_address) = None
       THEN Err("ContractNotFound")
       ELSE IF ~contains_block(ch, pend, block_id) THEN Err("BlockNotFound")
       ELSE LET storage == get_contract_storage_at(ch, pend, r[1], contract_address, key)
            IN Ok(IF storage = None THEN FeltZero ELSE storage[1])

get_storage_at(ch, pend, contract_address, key, block_id) ==
    IF ~contains_block(ch, pend, block_id) THEN Err("BlockNotFound")
    ELSE LET db_id == resolve_block_id(ch, pend, block_id)[1]
         IN IF get_contract_class_hash_at(ch, pend, db_id, contract_address) = None
            THEN Err("ContractNotFound")
            ELSE LET storage == get_contract_storage_at(ch, pend, db_id, contract_address, key)
                 IN Ok(IF storage = None THEN FeltZero ELSE storage[1])

\* Starknet::get_l1_last_confirmed_block: unwrap_or_default
get_l1_last_confirmed_block(l1) == IF l1 = None THEN 0 ELSE l1[1]

get_block_with_tx_hashes(ch, pend, l1, block_id) ==
    LET block == get_block_info(ch, pend, block_id)
    IN IF block = None THEN Err("BlockNotFound")
       ELSE IF block[1].kind = "Pending" THEN Ok([kind |-> "PendingBlock"])
       ELSE Ok([kind |-> "Block", block_number |-> block[1].block_number,
                status |-> IF block[1].block_number <= get_l1_last_confirmed_block(l1)
                           THEN "AcceptedOnL1" ELSE "AcceptedOnL2"])

\* ExecutionContext::new: the db id of the block info
ExecutionContext_db_id(block_info) ==
    IF block_info.kind = "Pending" THEN Pending ELSE BlockN(block_info.block_number)

\* ExecutionContext::init_cached_state: the pending block itself, the block
\* before a confirmed block, nothing before genesis
init_cached_state(db_id) ==
    IF db_id = Pending THEN Some(Pending)
    ELSE IF db_id[2] >= 1 THEN Some(BlockN(db_id[2] - 1)) ELSE None

\* convert_message_into_transaction
convert_message_into_transaction(message) ==
    [l1_handler |-> message, paid_fee_on_l1 |-> 1]

estimate_message_fee(ch, pend, message, block_id) ==
    LET block_info == get_block_info(ch, pend, block_id)
    IN IF block_info = None THEN Err("BlockNotFound")
       ELSE IF VersionLt(block_info[1].protocol_version, FALLBACK_TO_SEQUENCER_WHEN_VERSION_BELOW)
       THEN Err("UnsupportedTxnVersion")
       ELSE Ok(FeeEstimateOf(
                  StateAsOf(ch, pend, init_cached_state(ExecutionContext_db_id(block_info[1]))),
                  convert_message_into_transaction(message)))

\* trace_transaction: the transactions before tx_index are taken and the last
\* of them is popped as the one to trace
trace_transaction(ch, transaction_hash) ==
    LET found == find_tx_hash_block(ch, transaction_hash)
    IN IF found = None THEN Err("TxnHashNotFound")
       ELSE IF VersionLt(found[1].protocol_version, FALLBACK_TO_SEQUENCER_WHEN_VERSION_BELOW)
       THEN Err("UnsupportedTxnVersion")
       ELSE IF found[1].tx_index = 0 THEN Err("InternalServerError")
       ELSE Ok([transaction_hash |-> transaction_hash,
                prev_txs |-> {TxHash(found[1].block_number, j) : j \in 0..(found[1].tx_index - 2)},
                traced |-> TxHash(found[1].block_number, found[1].tx_index - 1)])

\* trace_block_transactions: the block is looked up and its transactions are
\* re-executed
trace_block_transactions(ch, pend, block_id) ==
    LET r == resolve_block_id(ch, pend, block_id)
    IN IF r = None THEN Err("BlockNotFound")
       ELSE Ok([traced_block |-> r[1]])

\* ---- the chain and the calls ----
RpcInit ==
    /\ chain = <<>>
    /\ pendingBlock = None
    /\ l1_last_confirmed = None
    /\ rpcLast = None

RpcIdle == RpcInit

\* A block can write to a contract deployed by it or before it, and deploys a
\* contract once.
BlockFits(bs, b) ==
    LET deployed == \E i \in 1..Len(bs) : bs[i].deploys
    IN /\ b.deploys => ~deployed
       /\ b.writes => (deployed \/ b.deploys)

\* The pending block is replaced
store_pending_block ==
    /\ rpcLast = None
    /\ \E b \in RpcBlocks :
          /\ BlockFits(chain, b)
          /\ pendingBlock' = Some(b)
    /\ UNCHANGED <<chain, l1_last_confirmed, rpcLast>>

\* A block is confirmed: the next block number, and the pending block is cleared
store_block ==
    /\ rpcLast = None
    /\ Len(chain) < MaxChainLen
    /\ \E b \in RpcBlocks :
          /\ BlockFits(chain, b)
          /\ chain' = Append(chain, b)
    /\ pendingBlock' = None
    /\ UNCHANGED <<l1_last_confirmed, rpcLast>>

\* The L1 state update worker writes the last block confirmed on L1
write_l1_last_confirmed ==
    /\ rpcLast = None
    /\ \E n \in 0..(MaxChainLen - 1) :
          /\ l1_last_confirmed # None => n > l1_last_confirmed[1]
          /\ l1_last_confirmed' = Some(n)
    /\ UNCHANGED <<chain, pendingBlock, rpcLast>>

rpc_get_storage_at ==
    /\ rpcLast = None
    /\ \E c \in RpcContracts \cup {UnknownContract}, k \in StorageKeysRpc, id \in BlockIds :
          rpcLast' = Some([method |-> "get_storage_at", block_id |-> id,
                           arg |-> <<c, k>>,
                           res |-> get_storage_at(chain, pendingBlock, c, k, id)])
    /\ UNCHANGED <<chain, pendingBlock, l1_last_confirmed>>

rpc_get_block_with_tx_hashes ==
    /\ rpcLast = None
    /\ \E id \in BlockIds :
          rpcLast' = Some([method |-> "get_block_with_tx_hashes", block_id |-> id,
                           arg |-> <<>>,
                           res |-> get_block_with_tx_hashes(chain, pendingBlock,
                                                            l1_last_confirmed, id)])
    /\ UNCHANGED <<chain, pendingBlock, l1_last_confirmed>>

rpc_estimate_message_fee ==
    /\ rpcLast = None
    /\ \E id \in BlockIds :
          rpcLast' = Some([method |-> "estimate_message_fee", block_id |-> id,
                           arg |-> <<"msg">>,
                           res |-> estimate_message_fee(chain, pendingBlock, "msg", id)])
    /\ UNCHANGED <<chain, pendingBlock, l1_last_confirmed>>

rpc_trace_transaction ==
    /\ rpcLast = None
    /\ \E h \in TxHashes :
          rpcLast' = Some([method |-> "trace_transaction", block_id |-> Number(h[2]),
                           arg |-> h,
                           res |-> trace_transaction(chain, h)])
    /\ UNCHANGED <<chain, pendingBlock, l1_last_confirmed>>

rpc_trace_block_transactions ==
    /\ rpcLast = None
    /\ \E id \in BlockIds \ {PendingTag} :
          rpcLast' = Some([method |-> "trace_block_transactions", block_id |-> id,
                           arg |-> <<>>,
                           res |-> trace_block_transactions(chain, pendingBlock, id)])
    /\ UNCHANGED <<chain, pendingBlock, l1_last_confirmed>>

\* The answer of the call is sent; a method reads the chain in one step, so
\* the chain changes between calls
rpc_respond ==
    /\ rpcLast # None
    /\ rpcLast' = None
    /\ UNCHANGED <<chain, pendingBlock, l1_last_confirmed>>

RpcFrame == UNCHANGED <<msgVars, clsVars, ctxVars, svcVars, gasVars, monVars, implVars, impVars, trieVars, gwVars, peerVars, lockVars, advVars, histVars, cmVars, parVars, tsVars>>

NextRpc ==
    \/ store_pending_block /\ RpcFrame
    \/ store_block /\ RpcFrame
    \/ write_l1_last_confirmed /\ RpcFrame
    \/ rpc_get_storage_at /\ RpcFrame
    \/ rpc_get_block_with_tx_hashes /\ RpcFrame
    \/ rpc_estimate_message_fee /\ RpcFrame
    \/ rpc_trace_transaction /\ RpcFrame
    \/ rpc_trace_block_transactions /\ RpcFrame
    \/ rpc_respond /\ RpcFrame

(***************************************************************************)
(* Gateway HTTP router: gateway/src/server/router.rs                       *)
(***************************************************************************)
\* A URI path is held as its split at '/': "/feeder/add_transaction" is
\* <<"", "feeder", "add_transaction">>.  Two paths are equal as strings iff
\* their splits are equal, and the path of a request starts with '/'.
PathSegments == {"", "health", "feeder", "feeder_gateway", "add_transaction", "get_block"}
UriPaths ==
    UNION {{<<"">> \o s : s \in [1..n -> PathSegments]} : n \in 1..MaxSegments}
HttpMethods == {"GET", "POST"}

\* split('/').filter(|segment| !segment.is_empty()).collect().join("/")
RECURSIVE normalized_path(_)
normalized_path(split) ==
    IF split = <<>> THEN <<>>
    ELSE IF Head(split) = "" THEN normalized_path(Tail(split))
    ELSE <<Head(split)>> \o normalized_path(Tail(split))

\* path.starts_with(prefix + "/"), on a joined path without empty segments
starts_with_segment(path, prefix) == Len(path) >= 2 /\ path[1] = prefix

FeederGatewayHandlers ==
    {"get_block", "get_signature", "get_state_update", "get_class_by_hash",
     "get_compiled_class_by_class_hash", "get_contract_addresses", "get_public_key"}

\* feeder_gateway_router: the match is on the method and the joined path
feeder_gateway_router(method, uri_path, path) ==
    IF method = "GET" /\ Len(path) = 2 /\ path[1] = "feeder_gateway"
          /\ path[2] \in FeederGatewayHandlers
    THEN <<"handle", path[2]>>
    ELSE <<"not_found">>

\* gateway_router: the match is on the method and req.uri().path()
gateway_router(method, uri_path, path) ==
    IF method = "POST" /\ uri_path = <<"feeder", "add_transaction">>
    THEN <<"handle", "add_transaction">>
    ELSE <<"not_found">>

main_router(method, uri_path, feeder_gateway_enable, gateway_enable) ==
    LET path == normalized_path(uri_path)
    IN IF path = <<"health">> THEN <<"ok">>
       ELSE IF feeder_gateway_enable /\ starts_with_segment(path, "feeder_gateway")
       THEN feeder_gateway_router(method, uri_path, path)
       ELSE IF gateway_enable /\ starts_with_segment(path, "feeder")
       THEN gateway_router(method, uri_path, path)
       ELSE IF ~feeder_gateway_enable /\ starts_with_segment(path, "feeder_gateway")
       THEN <<"service_unavailable", "Feeder Gateway">>
       ELSE IF ~gateway_enable /\ starts_with_segment(path, "feeder")
       THEN <<"service_unavailable", "Feeder">>
       ELSE <<"not_found">>

GwInit ==
    /\ gwConfig \in [feeder_gateway_enable : BOOLEAN, gateway_enable : BOOLEAN]
    /\ httpLast = None

GwIdle ==
    /\ gwConfig = [feeder_gateway_enable |-> FALSE, gateway_enable |-> FALSE]
    /\ httpLast = None

\* A request comes in and main_router answers it
http_request ==
    /\ httpLast = None
    /\ \E m \in HttpMethods, p \in UriPaths :
          httpLast' = Some([method |-> m, uri_path |-> p,
                            resp |-> main_router(m, p, gwConfig.feeder_gateway_enable,
                                                 gwConfig.gateway_enable)])
    /\ UNCHANGED gwConfig

\* The response is sent
http_respond ==
    /\ httpLast # None
    /\ httpLast' = None
    /\ UNCHANGED gwConfig

GwFrame == UNCHANGED <<msgVars, clsVars, ctxVars, svcVars, gasVars, monVars, implVars, impVars, trieVars, rpcVars, peerVars, lockVars, advVars, histVars, cmVars, parVars, tsVars>>

NextGw ==
    \/ http_request /\ GwFrame
    \/ http_respond /\ GwFrame

(***************************************************************************)
(* Peer set of the P2P sync: sync2/src/peer_set.rs (PeerSetInner)          *)
(***************************************************************************)
Peers == {"p1", "p2"}

PeerStats_default == [successes |-> 0, failures |-> 0, in_use_counter |-> 0]

\* The counters are Saturating<i32> and Saturating<u32>; the values reached
\* here are far from the ends of i32, and only the lower end of u32 is met.
saturating_sub_u32(a, b) == IF a >= b THEN a - b ELSE 0

increment_successes(stats) == [stats EXCEPT !.successes = @ + 1]
increment_failures(stats) == [stats EXCEPT !.failures = @ + 1]
increment_in_use(stats) == [stats EXCEPT !.in_use_counter = @ + 1]
decrement_in_use(stats) == [stats EXCEPT !.in_use_counter = saturating_sub_u32(@, 1)]

score(stats) ==
    LET in_use_malus == IF stats.in_use_counter < InUseMalusThreshold
                        THEN stats.in_use_counter
                        ELSE stats.in_use_counter * InUseMalusFactor
        successes == IF stats.successes >= SuccessesFloor THEN stats.successes ELSE SuccessesFloor
    IN (0 - FailureWeight) * stats.failures + successes - in_use_malus

should_evict(stats) == stats.failures >= EvictFailures

PeerSortedByScore_new(peer_id, stats) == [peer_id |-> peer_id, score |-> score(stats)]

\* BTreeSet<PeerSortedByScore>: the order of the entries is Ord, which
\* compares the scores only; two entries of the same score are one key.
BTreeSet_contains(queue_, entry) == \E x \in queue_ : x.score = entry.score
BTreeSet_insert(queue_, entry) == IF BTreeSet_contains(queue_, entry) THEN queue_ ELSE queue_ \cup {entry}
BTreeSet_remove(queue_, entry) == {x \in queue_ : x.score # entry.score}
BTreeSet_first(queue_) == CHOOSE x \in queue_ : \A y \in queue_ : x.score <= y.score

peek_next(inner) ==
    IF inner.queue = {} THEN None ELSE Some(BTreeSet_first(inner.queue).peer_id)

WithoutPeer(stats_map, peer) == [p \in (DOMAIN stats_map) \ {peer} |-> stats_map[p]]
WithPeer(stats_map, peer, stats) == [p \in (DOMAIN stats_map) \cup {peer} |-> IF p = peer THEN stats ELSE stats_map[p]]

success_update(stats) == increment_successes(decrement_in_use(stats))
error_update(stats) == increment_failures(decrement_in_use(stats))

\* The closures given to update_stats, by name
call_once(f, stats) ==
    CASE f = "increment_in_use" -> increment_in_use(stats)
      [] f = "success_update" -> success_update(stats)
      [] f = "error_update" -> error_update(stats)

\* update_stats: the removal and the insertion of the queue entry are the
\* arguments of debug_assert!, evaluated only in a build with debug assertions.
update_stats(inner, peer, f, debug) ==
    IF peer \notin DOMAIN inner.stats_by_peer THEN inner
    ELSE LET old == inner.stats_by_peer[peer]
             old_entry == PeerSortedByScore_new(peer, old)
             removed == BTreeSet_contains(inner.queue, old_entry)
             q1 == IF debug THEN BTreeSet_remove(inner.queue, old_entry) ELSE inner.queue
             new == call_once(f, old)
             new_entry == PeerSortedByScore_new(peer, new)
             inserted == ~BTreeSet_contains(q1, new_entry)
         IN IF debug /\ ~removed THEN [inner EXCEPT !.panicked = TRUE]
            ELSE IF should_evict(new)
            THEN [inner EXCEPT !.queue = q1, !.stats_by_peer = WithoutPeer(@, peer)]
            ELSE IF debug /\ ~inserted
            THEN [inner EXCEPT !.queue = q1, !.stats_by_peer = WithPeer(@, peer, new), !.panicked = TRUE]
            ELSE [inner EXCEPT !.queue = IF debug THEN BTreeSet_insert(q1, new_entry) ELSE q1,
                               !.stats_by_peer = WithPeer(@, peer, new)]

\* append_new_peers, over the peers in the order the iteration gives them
RECURSIVE append_new_peers(_, _)
append_new_peers(inner, new_peers) ==
    IF new_peers = <<>> THEN inner
    ELSE LET peer_id == Head(new_peers)
             next == IF peer_id \in DOMAIN inner.stats_by_peer THEN inner
                     ELSE [inner EXCEPT
                             !.queue = BTreeSet_insert(@, PeerSortedByScore_new(peer_id, PeerStats_default)),
                             !.stats_by_peer = WithPeer(@, peer_id, PeerStats_default)]
         IN append_new_peers(next, Tail(new_peers))

next_from_set(inner, debug) ==
    LET peer == peek_next(inner)
    IN IF peer = None THEN [inner |-> inner, peer |-> None]
       ELSE [inner |-> update_stats(inner, peer[1], "increment_in_use", debug), peer |-> peer]


\* The answers of get_random_peers: a set of peers, iterated in some order
NewPeerSeqs == {<<>>} \cup {<<p>> : p \in Peers} \cup {<<p, q>> : p \in Peers, q \in Peers}
NewPeerAnswers == {s \in NewPeerSeqs : Len(s) = 2 => s[1] # s[2]}

PeerSetInner == [queue |-> queue, stats_by_peer |-> stats_by_peer, panicked |-> FALSE]

PeerInit ==
    /\ debug_assertions \in BOOLEAN
    /\ queue = {}
    /\ stats_by_peer = << >>
    /\ peerOutcome = "running"
    /\ lastNext = None

PeerIdle ==
    /\ debug_assertions = FALSE
    /\ queue = {}
    /\ stats_by_peer = << >>
    /\ peerOutcome = "running"
    /\ lastNext = None

SetInner(inner) ==
    /\ queue' = inner.queue
    /\ stats_by_peer' = inner.stats_by_peer
    /\ peerOutcome' = IF inner.panicked THEN "panicked" ELSE "running"

\* next_peer, the set holding a peer: the first lookup answers
next_peer_from_set ==
    /\ peerOutcome = "running"
    /\ queue # {}
    /\ LET r == next_from_set(PeerSetInner, debug_assertions)
       IN /\ \A p \in DOMAIN r.inner.stats_by_peer : r.inner.stats_by_peer[p].in_use_counter <= MaxInUse
          /\ SetInner(r.inner)
          /\ lastNext' = Some([peer |-> r.peer[1], set |-> stats_by_peer])
    /\ UNCHANGED debug_assertions

\* next_peer, the set being empty: get_new_peers is asked, its answer is
\* appended and the lookup is made again (the loop goes on when it is empty)
next_peer_get_more ==
    /\ peerOutcome = "running"
    /\ queue = {}
    /\ \E new_peers \in NewPeerAnswers :
          LET appended == append_new_peers(PeerSetInner, new_peers)
              r == next_from_set(appended, debug_assertions)
          IN /\ SetInner(r.inner)
             /\ lastNext' = IF r.peer = None THEN lastNext
                            ELSE Some([peer |-> r.peer[1], set |-> appended.stats_by_peer])
    /\ UNCHANGED debug_assertions

peer_operation_success ==
    /\ peerOutcome = "running"
    /\ \E peer_id \in Peers :
          /\ peer_id \in DOMAIN stats_by_peer => stats_by_peer[peer_id].successes < MaxSuccesses
          /\ SetInner(update_stats(PeerSetInner, peer_id, "success_update", debug_assertions))
    /\ UNCHANGED <<debug_assertions, lastNext>>

peer_operation_error ==
    /\ peerOutcome = "running"
    /\ \E peer_id \in Peers :
          SetInner(update_stats(PeerSetInner, peer_id, "error_update", debug_assertions))
    /\ UNCHANGED <<debug_assertions, lastNext>>

PeerFrame == UNCHANGED <<msgVars, clsVars, ctxVars, svcVars, gasVars, monVars, implVars, impVars, trieVars, rpcVars, gwVars, lockVars, advVars, histVars, cmVars, parVars, tsVars>>

NextPeer ==
    \/ next_peer_from_set /\ PeerFrame
    \/ next_peer_get_more /\ PeerFrame
    \/ peer_operation_success /\ PeerFrame
    \/ peer_operation_error /\ PeerFrame

(***************************************************************************)
(* Peer set of the P2P sync: the two mutexes of PeerSet                    *)
(***************************************************************************)
\* Tasks call next_peer, peer_operation_success and peer_operation_error.
\* A task is at one of:
\*   idle            not in a call
\*   np_start        next_peer, about to lock inner                    (:191)
\*   np_first        holds inner, first next_from_set                  (:191)
\*   np_wait_gmp     about to lock get_more_peers_mutex                (:196)
\*   np_guarded      holds get_more_peers_mutex, about to lock inner   (:199)
\*   np_second       holds both, second next_from_set                  (:199)
\*   np_get_new      holds get_more_peers_mutex, get_new_peers().await (:203)
\*   np_got_new      answer received, about to lock inner              (:206)
\*   np_append       holds both, append_new_peers and next_from_set    (:207-209)
\*   op_start        peer_operation_*, about to lock inner             (:219, :231)
\*   op_locked       holds inner, update_stats                         (:220, :232)
Tasks == 1..NumTasks
NoTask == 0

\* The guard of inner taken in the condition of an `if let` lives to the end
\* of that statement and is dropped before the next one.
inner_after_if_let_Kept(holder) == holder
inner_after_if_let(holder) == NoTask

WaitsForGetMorePeers(t) == lockPc[t] = "np_wait_gmp"
WaitsForInner(t) == lockPc[t] \in {"np_start", "np_guarded", "np_got_new", "op_start"}

LockInit ==
    /\ lockPc = [t \in Tasks |-> "idle"]
    /\ get_more_peers_mutex = NoTask
    /\ inner_mutex = NoTask
    /\ lockOrder = [t \in Tasks |-> <<>>]

LockIdle == LockInit

Goto(t, where) == lockPc' = [lockPc EXCEPT ![t] = where]
Took(t, lock) == lockOrder' = [lockOrder EXCEPT ![t] = Append(@, lock)]
Dropped(t, locks) == lockOrder' = [lockOrder EXCEPT ![t] = SelectSeq(@, LAMBDA l : l \notin locks)]

next_peer_call(t) ==
    /\ lockPc[t] = "idle"
    /\ Goto(t, "np_start")
    /\ UNCHANGED <<get_more_peers_mutex, inner_mutex, lockOrder>>

next_peer_lock_inner(t) ==
    /\ lockPc[t] = "np_start"
    /\ inner_mutex = NoTask
    /\ inner_mutex' = t
    /\ Goto(t, "np_first")
    /\ Took(t, "inner")
    /\ UNCHANGED get_more_peers_mutex

\* :191-193, the set answers (return) or it is empty (go on to the loop)
next_peer_first(t) ==
    /\ lockPc[t] = "np_first"
    /\ \E found \in BOOLEAN :
          /\ Goto(t, IF found THEN "idle" ELSE "np_wait_gmp")
          /\ inner_mutex' = IF found THEN NoTask ELSE inner_after_if_let(inner_mutex)
          /\ lockOrder' = [lockOrder EXCEPT ![t] = IF inner_mutex' = t THEN @ ELSE <<>>]
    /\ UNCHANGED get_more_peers_mutex

\* :196
next_peer_lock_get_more_peers(t) ==
    /\ lockPc[t] = "np_wait_gmp"
    /\ get_more_peers_mutex = NoTask
    /\ get_more_peers_mutex' = t
    /\ Goto(t, "np_guarded")
    /\ Took(t, "get_more_peers_mutex")
    /\ UNCHANGED inner_mutex

\* :199
next_peer_lock_inner_guarded(t) ==
    /\ lockPc[t] = "np_guarded"
    /\ inner_mutex = NoTask
    /\ inner_mutex' = t
    /\ Goto(t, "np_second")
    /\ Took(t, "inner")
    /\ UNCHANGED get_more_peers_mutex

\* :199-201, the set answers (return, both guards dropped) or it is empty
next_peer_second(t) ==
    /\ lockPc[t] = "np_second"
    /\ \E found \in BOOLEAN :
          IF found
          THEN /\ Goto(t, "idle")
               /\ inner_mutex' = NoTask
               /\ get_more_peers_mutex' = NoTask
               /\ Dropped(t, {"inner", "get_more_peers_mutex"})
          ELSE /\ Goto(t, "np_get_new")
               /\ inner_mutex' = inner_after_if_let(inner_mutex)
               /\ Dropped(t, {"inner"})
               /\ UNCHANGED get_more_peers_mutex

\* :203, the answer of get_new_peers arrives
next_peer_got_new_peers(t) ==
    /\ lockPc[t] = "np_get_new"
    /\ Goto(t, "np_got_new")
    /\ UNCHANGED <<get_more_peers_mutex, inner_mutex, lockOrder>>

\* :206
next_peer_lock_inner_append(t) ==
    /\ lockPc[t] = "np_got_new"
    /\ inner_mutex = NoTask
    /\ inner_mutex' = t
    /\ Goto(t, "np_append")
    /\ Took(t, "inner")
    /\ UNCHANGED get_more_peers_mutex

\* :207-212, return or next turn of the loop: both guards are dropped
next_peer_append(t) ==
    /\ lockPc[t] = "np_append"
    /\ \E found \in BOOLEAN : Goto(t, IF found THEN "idle" ELSE "np_wait_gmp")
    /\ inner_mutex' = NoTask
    /\ get_more_peers_mutex' = NoTask
    /\ Dropped(t, {"inner", "get_more_peers_mutex"})

\* peer_operation_success and peer_operation_error
peer_operation_call(t) ==
    /\ lockPc[t] = "idle"
    /\ Goto(t, "op_start")
    /\ UNCHANGED <<get_more_peers_mutex, inner_mutex, lockOrder>>

peer_operation_lock_inner(t) ==
    /\ lockPc[t] = "op_start"
    /\ inner_mutex = NoTask
    /\ inner_mutex' = t
    /\ Goto(t, "op_locked")
    /\ Took(t, "inner")
    /\ UNCHANGED get_more_peers_mutex

peer_operation_return(t) ==
    /\ lockPc[t] = "op_locked"
    /\ inner_mutex' = NoTask
    /\ Goto(t, "idle")
    /\ Dropped(t, {"inner"})
    /\ UNCHANGED get_more_peers_mutex

LockFrame == UNCHANGED <<msgVars, clsVars, ctxVars, svcVars, gasVars, monVars, implVars, impVars, trieVars, rpcVars, gwVars, peerVars, advVars, histVars, cmVars, parVars, tsVars>>

NextLock ==
    \/ \E t \in Tasks : next_peer_call(t) /\ LockFrame
    \/ \E t \in Tasks : next_peer_lock_inner(t) /\ LockFrame
    \/ \E t \in Tasks : next_peer_first(t) /\ LockFrame
    \/ \E t \in Tasks : next_peer_lock_get_more_peers(t) /\ LockFrame
    \/ \E t \in Tasks : next_peer_lock_inner_guarded(t) /\ LockFrame
    \/ \E t \in Tasks : next_peer_second(t) /\ LockFrame
    \/ \E t \in Tasks : next_peer_got_new_peers(t) /\ LockFrame
    \/ \E t \in Tasks : next_peer_lock_inner_append(t) /\ LockFrame
    \/ \E t \in Tasks : next_peer_append(t) /\ LockFrame
    \/ \E t \in Tasks : peer_operation_call(t) /\ LockFrame
    \/ \E t \in Tasks : peer_operation_lock_inner(t) /\ LockFrame
    \/ \E t \in Tasks : peer_operation_return(t) /\ LockFrame

(***************************************************************************)
(* ServiceContext::state_advance under concurrent callers: service.rs      *)
(***************************************************************************)
\* The contexts of a node are clones sharing one Arc<AtomicU8>; each caller
\* has its own context, so state_advance can run in several tasks at once.
AdvCallers == 1..NumCallers

saturating_add_u8(a, b) == IF a + b > U8Max THEN U8Max ELSE a + b

AdvInit ==
    /\ advState = 0
    /\ advLoaded = [c \in AdvCallers |-> None]
    /\ advDone = 0
    /\ advMax = 0

AdvIdle == AdvInit

\* let state = self.state.load(SeqCst).saturating_add(1);
state_advance_load(c) ==
    /\ advLoaded[c] = None
    /\ advDone + Cardinality({d \in AdvCallers : advLoaded[d] # None}) < MaxAdvCalls
    /\ advLoaded' = [advLoaded EXCEPT ![c] = Some(saturating_add_u8(advState, 1))]
    /\ UNCHANGED <<advState, advDone, advMax>>

\* self.state.store(state, SeqCst); state.into()
state_advance_store(c) ==
    /\ advLoaded[c] # None
    /\ advState' = advLoaded[c][1]
    /\ advLoaded' = [advLoaded EXCEPT ![c] = None]
    /\ advDone' = advDone + 1
    /\ advMax' = IF advState' > advMax THEN advState' ELSE advMax

AdvFrame == UNCHANGED <<msgVars, clsVars, ctxVars, svcVars, gasVars, monVars, implVars, impVars, trieVars, rpcVars, gwVars, peerVars, lockVars, histVars, cmVars, parVars, tsVars>>

NextAdv ==
    \/ \E c \in AdvCallers : state_advance_load(c) /\ AdvFrame
    \/ \E c \in AdvCallers : state_advance_store(c) /\ AdvFrame

(***************************************************************************)
(* update_state_root: the two branches and the handles of the tries        *)
(***************************************************************************)
\* The tries, each behind one lock: a write handle (ViewMut) excludes every
\* other view of the trie for as long as it lives, a local of the function
\* lives to the end of the function.
Tries == {"contract", "contract_storage", "class"}
DeclaredClasses == {"c1", "c2"}
DeclaredMaps == [DeclaredClasses -> {None, Some("compiled")}]

\* Poseidon hash, taken as injective
PoseidonHasher_hash_elements(a, b) == <<"poseidon", a, b>>

\* The root of a trie stands for its content; the empty trie has root ZERO
trie_root(content) ==
    IF \A k \in DOMAIN content : content[k] = None THEN FieldElementZero ELSE <<"root", content>>

\* ClassTrieViewMut::update: the pairs are inserted in the order of the vector
RECURSIVE update(_, _)
update(content, updates) ==
    IF updates = <<>> THEN content
    ELSE update([content EXCEPT ![Head(updates)[1]] = Some(Head(updates)[2])], Tail(updates))

\* The class leaves of a diff, in one of the orders par_bridge can give them
class_updates(declared, order) ==
    [i \in 1..Len(order) |->
        <<order[i], PoseidonHasher_hash_elements("CONTRACT_CLASS_LEAF_V0", declared[order[i]][1])>>]

OrdersOf(S) ==
    {o \in UNION {[1..n -> S] : n \in 0..Cardinality(S)} :
        /\ Len(o) = Cardinality(S)
        /\ \A i \in 1..Len(o) : \A j \in 1..Len(o) : o[i] = o[j] => i = j}

calculate_state_root(contracts_trie_root, classes_trie_root) ==
    IF classes_trie_root = FieldElementZero THEN contracts_trie_root
    ELSE <<"poseidon", "STARKNET_STATE_V0", contracts_trie_root, classes_trie_root>>

\* A view of a trie is asked for: it is given when no write handle is alive;
\* asked for under the write handle the same thread holds, the lock blocks
\* for ever or panics.
view_outcomes(handle) == IF handle = "free" THEN {"granted"} ELSE {"blocked", "panicked"}

CmInit ==
    /\ cmCsd \in CommitmentStateDiffs
    /\ cmDeclared \in DeclaredMaps
    /\ cmPc = [contract |-> "start", class |-> "start"]
    /\ cmHandles = [t \in Tries |-> "free"]
    /\ cmStorage = [c \in Contracts |-> [k \in StorageKeys |-> 0]]
    /\ cmClassTrie = [c \in DeclaredClasses |-> None]
    /\ cmResult = None

CmIdle ==
    /\ cmCsd = EmptyCsd
    /\ cmDeclared = [c \in DeclaredClasses |-> None]
    /\ cmPc = [contract |-> "start", class |-> "start"]
    /\ cmHandles = [t \in Tries |-> "free"]
    /\ cmStorage = [c \in Contracts |-> [k \in StorageKeys |-> 0]]
    /\ cmClassTrie = [c \in DeclaredClasses |-> None]
    /\ cmResult = None

\* contract_trie_root :177, storage_handler::contract_trie_mut()
contract_trie_mut ==
    /\ cmPc.contract = "start"
    /\ cmHandles["contract"] = "free"
    /\ cmHandles' = [cmHandles EXCEPT !["contract"] = "write"]
    /\ cmPc' = [cmPc EXCEPT !.contract = "has_contract"]
    /\ UNCHANGED <<cmCsd, cmDeclared, cmStorage, cmClassTrie, cmResult>>

\* :178, storage_handler::contract_storage_trie_mut()
contract_storage_trie_mut ==
    /\ cmPc.contract = "has_contract"
    /\ cmHandles["contract_storage"] = "free"
    /\ cmHandles' = [cmHandles EXCEPT !["contract_storage"] = "write"]
    /\ cmPc' = [cmPc EXCEPT !.contract = "has_storage"]
    /\ UNCHANGED <<cmCsd, cmDeclared, cmStorage, cmClassTrie, cmResult>>

\* :181-190, the storage changes are inserted and committed; storage_write lives on
storage_write_commit ==
    /\ cmPc.contract = "has_storage"
    /\ cmStorage' = storage_after(cmStorage, cmCsd)
    /\ cmPc' = [cmPc EXCEPT !.contract = "storage_committed"]
    /\ UNCHANGED <<cmCsd, cmDeclared, cmHandles, cmClassTrie, cmResult>>

\* :193, storage_handler::contract_storage_trie(), a read view of the storage trie
contract_storage_trie ==
    /\ cmPc.contract = "storage_committed"
    /\ \E o \in view_outcomes(cmHandles["contract_storage"]) :
          cmPc' = [cmPc EXCEPT !.contract = o]
    /\ UNCHANGED <<cmCsd, cmDeclared, cmHandles, cmStorage, cmClassTrie, cmResult>>

\* class_trie_root :269, storage_handler::class_trie_mut()
class_trie_mut ==
    /\ cmPc.class = "start"
    /\ cmHandles["class"] = "free"
    /\ cmHandles' = [cmHandles EXCEPT !["class"] = "write"]
    /\ cmPc' = [cmPc EXCEPT !.class = "has_class"]
    /\ UNCHANGED <<cmCsd, cmDeclared, cmStorage, cmClassTrie, cmResult>>

\* :271-286, the leaves are computed in parallel and collected in some order,
\* then init, update and commit; class_write lives on
class_write_commit ==
    /\ cmPc.class = "has_class"
    /\ \E order \in OrdersOf({c \in DeclaredClasses : cmDeclared[c] # None}) :
          cmClassTrie' = update(cmClassTrie, class_updates(cmDeclared, order))
    /\ cmPc' = [cmPc EXCEPT !.class = "class_committed"]
    /\ UNCHANGED <<cmCsd, cmDeclared, cmHandles, cmStorage, cmResult>>

\* :288, storage_handler::class_trie(), a read view of the class trie
class_trie ==
    /\ cmPc.class = "class_committed"
    /\ \E o \in view_outcomes(cmHandles["class"]) :
          cmPc' = [cmPc EXCEPT !.class = o]
    /\ UNCHANGED <<cmCsd, cmDeclared, cmHandles, cmStorage, cmClassTrie, cmResult>>

\* update_state_root :155-158, rayon::join: a panic of a branch is the panic
\* of the call, once the other branch has ended; the handles are dropped
join_panic ==
    /\ cmResult = None
    /\ "panicked" \in {cmPc.contract, cmPc.class}
    /\ {cmPc.contract, cmPc.class} \subseteq {"panicked", "granted"}
    /\ cmResult' = Some(Err("panic"))
    /\ cmHandles' = [t \in Tries |-> "free"]
    /\ UNCHANGED <<cmCsd, cmDeclared, cmPc, cmStorage, cmClassTrie>>

CmFrame == UNCHANGED <<msgVars, clsVars, ctxVars, svcVars, gasVars, monVars, implVars, impVars, trieVars, rpcVars, gwVars, peerVars, lockVars, advVars, histVars, parVars, tsVars>>

NextCm ==
    \/ contract_trie_mut /\ CmFrame
    \/ contract_storage_trie_mut /\ CmFrame
    \/ storage_write_commit /\ CmFrame
    \/ contract_storage_trie /\ CmFrame
    \/ class_trie_mut /\ CmFrame
    \/ class_write_commit /\ CmFrame
    \/ class_trie /\ CmFrame
    \/ join_panic /\ CmFrame

(***************************************************************************)
(* store_classes called for blocks imported in parallel: class_db.rs       *)
(***************************************************************************)
ParInit ==
    /\ parDeclares \in [BlockNs -> SUBSET Classes]
    /\ parPc = [b \in BlockNs |-> "new"]
    /\ parIgnore = [b \in BlockNs |-> {}]
    /\ parOverlap = FALSE

ParIdle ==
    /\ parDeclares = [b \in BlockNs |-> {}]
    /\ parPc = [b \in BlockNs |-> "new"]
    /\ parIgnore = [b \in BlockNs |-> {}]
    /\ parOverlap = FALSE

\* store_classes of block b, its first part: ignore_class is collected from
\* what get_class_info finds in the database at that moment.
store_classes_check(b) ==
    /\ parPc[b] = "new"
    /\ parPc' = [parPc EXCEPT ![b] = "checked"]
    /\ parIgnore' = [parIgnore EXCEPT
                       ![b] = {k \in parDeclares[b] : get_class_info(classDb, BlockN(b), k) # None}]
    /\ parOverlap' = (parOverlap \/ \E o \in BlockNs \ {b} : parPc[o] = "checked")
    /\ UNCHANGED <<parDeclares, clsVars>>

\* store_classes of block b, its second part: the batches of class infos and
\* of compiled classes are written, the keys of ignore_class left out.
store_classes_write(b) ==
    /\ parPc[b] = "checked"
    /\ parPc' = [parPc EXCEPT ![b] = "done"]
    /\ LET keys == parDeclares[b] \ parIgnore[b] IN
         classDb' = [classDb EXCEPT
            !["ClassInfo"] = PutAll(@, keys,
                                [k \in keys |-> ClassInfoWithBlockNumber(k, BlockN(b))]),
            !["ClassCompiled"] = PutAll(@, keys, [k \in keys |-> <<"compiled", k>>])]
    /\ UNCHANGED <<parDeclares, parIgnore, parOverlap, declaredIn, clearPc>>

ParFrame == UNCHANGED <<msgVars, ctxVars, svcVars, gasVars, monVars, implVars, impVars, trieVars, rpcVars, gwVars, peerVars, lockVars, advVars, histVars, cmVars, tsVars>>

NextPar ==
    \/ \E b \in BlockNs : store_classes_check(b) /\ ParFrame
    \/ \E b \in BlockNs : store_classes_write(b) /\ ParFrame

(***************************************************************************)
(* The timestamp at the start of an update_gas_price call                  *)
(***************************************************************************)
TsInit == tsAtCall = 0

TsIdle == TsInit

(***************************************************************************)
(* Service contexts: the ids service_remove was called with                *)
(***************************************************************************)
HistInit == svcRemoved = {}

HistIdle == HistInit

(***************************************************************************)
(* Service contexts                                                        *)
(***************************************************************************)
\* MadaraService, by discriminant
Monitor == 0
L1Sync == 2
L2Sync == 4
Database == 1
BlockProduction == 8
RpcUser == 16
RpcAdmin == 32
Gateway == 64
Telemetry == 128
\* Every MadaraService
MadaraServices == {Monitor, Database, L1Sync, L2Sync, BlockProduction, RpcUser, RpcAdmin,
                   Gateway, Telemetry}
ServiceIds == {Monitor, L1Sync, L2Sync}

\* MadaraState, by discriminant
Shutdown == 3

\* u8 as its set of bits, for the masks
Bits == {1, 2, 4, 8, 16, 32, 64, 128}
BitAnd(a, b) == LET S == {x \in Bits : (a \div x) % 2 = 1 /\ (b \div x) % 2 = 1}
                    F[T \in SUBSET Bits] ==
                        IF T = {} THEN 0
                        ELSE LET x == CHOOSE y \in T : TRUE IN x + F[T \ {x}]
                IN F[S]
BitOr(a, b) == a + b - BitAnd(a, b)
BitNot(a) == 255 - a

\* MadaraServiceMask::status
status(mask, svcs) == IF BitAnd(mask, svcs) > 0 THEN "On" ELSE "Off"
\* MadaraServiceMask::activate (fetch_or) and deactivate (fetch_and), the new value
activate(mask, svc) == BitOr(mask, svc)
deactivate(mask, svc) == BitAnd(mask, BitNot(svc))

\* MadaraState::from(u8)
MadaraStateOf(v) == IF v >= Shutdown THEN Shutdown ELSE v

\* tokio_util CancellationToken: the ancestors of a token, itself included
RECURSIVE TokAncestors(_, _)
TokAncestors(parents, t) ==
    IF t = 0 THEN {} ELSE {t} \cup TokAncestors(parents, parents[t])

\* CancellationToken::cancel: the token and every token below it
token_cancel(parents, cancelled, t) ==
    cancelled \cup {u \in 1..Len(parents) : t \in TokAncestors(parents, u)}

\* ServiceContext: token_local.as_ref().unwrap_or(&token_global)
local_or_global(ctx) == IF ctx.token_local = None THEN ctx.token_global ELSE ctx.token_local[1]

\* ServiceContext::default: no local token, id Monitor.  scope and parent_scope
\* record where the context sits in the tree of contexts: the context that opened
\* its local scope, and the scope child() was called in (0: none).
DefaultContext == [token_global |-> 1, token_local |-> None, id |-> Monitor,
                   scope |-> 1, parent_scope |-> 0]

\* ServiceContext::is_cancelled
is_cancelled(ctx, cancelled, mask, st) ==
    \/ ctx.token_global \in cancelled
    \/ (ctx.token_local # None /\ ctx.token_local[1] \in cancelled)
    \/ status(mask, ctx.id) = "Off"
    \/ MadaraStateOf(st) = Shutdown

cancel_local_Global(c) ==
    /\ tokCancelled' = token_cancel(tokParent, tokCancelled, ctxs[c].token_global)
    /\ tokCancelled' # tokCancelled
    /\ UNCHANGED <<tokParent, ctxs, services, nodeState, added>>

\* ServiceContext::cancel_local
cancel_local(c) ==
    /\ tokCancelled' = token_cancel(tokParent, tokCancelled, local_or_global(ctxs[c]))
    /\ tokCancelled' # tokCancelled
    /\ UNCHANGED <<tokParent, ctxs, services, nodeState, added>>

\* ServiceContext::cancel_global
cancel_global(c) ==
    /\ tokCancelled' = token_cancel(tokParent, tokCancelled, ctxs[c].token_global)
    /\ tokCancelled' # tokCancelled
    /\ UNCHANGED <<tokParent, ctxs, services, nodeState, added>>

\* ServiceContext::child, then with_id: a new local scope under the scope of c.
\* A child token of a cancelled token is born cancelled.
child_with_id(c, id) ==
    LET parent == local_or_global(ctxs[c])
        t == Len(tokParent) + 1
    IN /\ Len(ctxs) < MaxCtxs
       /\ tokParent' = Append(tokParent, parent)
       /\ tokCancelled' = IF parent \in tokCancelled THEN tokCancelled \cup {t}
                          ELSE tokCancelled
       /\ ctxs' = Append(ctxs, [ctxs[c] EXCEPT !.token_local = Some(t), !.id = id,
                                               !.scope = Len(ctxs) + 1,
                                               !.parent_scope = ctxs[c].scope])
       /\ UNCHANGED <<services, nodeState, added>>

\* Clone for ServiceContext: the same tokens, the same id, the same scope
clone(c) ==
    /\ Len(ctxs) < MaxCtxs
    /\ ctxs' = Append(ctxs, ctxs[c])
    /\ UNCHANGED <<tokParent, tokCancelled, services, nodeState, added>>

\* ServiceContext::service_add and service_remove, on the shared mask.  No
\* receiver is subscribed in this specification, so the send reaches nobody.
service_add(svc) ==
    /\ services' = activate(services, svc)
    /\ added' = added \cup {svc}
    /\ UNCHANGED <<tokParent, tokCancelled, ctxs, nodeState>>

service_remove(svc) ==
    /\ services' = deactivate(services, svc)
    /\ added' = added \ {svc}
    /\ UNCHANGED <<tokParent, tokCancelled, ctxs, nodeState>>

\* ServiceContext::new()
CtxInit ==
    /\ tokParent = <<0>>
    /\ tokCancelled = {}
    /\ ctxs = <<DefaultContext>>
    /\ services = 0
    /\ nodeState = 0
    /\ added = {}

CtxIdle == CtxInit

(***************************************************************************)
(* The Service implementations: BlockProductionService, SyncService        *)
(***************************************************************************)
ImplNames == {"block_production", "sync"}

\* BlockProductionService::new and SyncService::new: the start parameters are
\* there; block production can be disabled by its configuration.
ImplNew(name, enabled) ==
    [start |-> IF name = "block_production" /\ ~enabled THEN None ELSE Some(1),
     enabled |-> enabled]

\* BlockProductionService::start: nothing when disabled; otherwise the start
\* parameters are taken out of self, with expect, and the task is spawned.
BlockProductionService_start(obj) ==
    IF ~obj.enabled THEN [obj |-> obj, res |-> "ok", spawned |-> FALSE]
    ELSE IF obj.start = None THEN [obj |-> obj, res |-> "panic", spawned |-> FALSE]
    ELSE [obj |-> [obj EXCEPT !.start = None], res |-> "ok", spawned |-> TRUE]

\* SyncService::start: the telemetry handle is taken out of self, with
\* context(..)?, and the task is spawned.
SyncService_start(obj) ==
    IF obj.start = None THEN [obj |-> obj, res |-> "err", spawned |-> FALSE]
    ELSE [obj |-> [obj EXCEPT !.start = None], res |-> "ok", spawned |-> TRUE]

Service_start(name, obj) ==
    IF name = "block_production" THEN BlockProductionService_start(obj)
    ELSE SyncService_start(obj)

\* The calls of start made on a service so far
CallsOf(log, name) == Len(SelectSeq(log, LAMBDA c : c.svc = name))

ImplInit ==
    /\ \E e \in BOOLEAN :
          implObj = [n \in ImplNames |-> ImplNew(n, IF n = "sync" THEN TRUE ELSE e)]
    /\ implTask = [n \in ImplNames |-> "none"]
    /\ implLog = <<>>

ImplIdle ==
    /\ implObj = [n \in ImplNames |-> ImplNew(n, TRUE)]
    /\ implTask = [n \in ImplNames |-> "none"]
    /\ implLog = <<>>

\* start is called on a service whose task does not run, as long as no call
\* has panicked.
impl_start ==
    /\ \A i \in DOMAIN implLog : implLog[i].res # "panic"
    /\ \E n \in ImplNames :
          /\ implTask[n] # "running"
          /\ CallsOf(implLog, n) < MaxStarts
          /\ LET r == Service_start(n, implObj[n]) IN
               /\ implObj' = [implObj EXCEPT ![n] = r.obj]
               /\ implTask' = IF r.spawned THEN [implTask EXCEPT ![n] = "running"]
                              ELSE implTask
               /\ implLog' = Append(implLog, [svc |-> n, res |-> r.res,
                                              restart |-> implTask[n] = "ended"])

\* The task of a service shuts down.
impl_task_shutdown ==
    /\ \E n \in ImplNames :
          /\ implTask[n] = "running"
          /\ implTask' = [implTask EXCEPT ![n] = "ended"]
    /\ UNCHANGED <<implObj, implLog>>

ImplFrame == UNCHANGED <<msgVars, clsVars, ctxVars, svcVars, gasVars, monVars, impVars, trieVars, rpcVars, gwVars, peerVars, lockVars, advVars, histVars, cmVars, parVars, tsVars>>

NextImpl ==
    \/ impl_start /\ ImplFrame
    \/ impl_task_shutdown /\ ImplFrame

(***************************************************************************)
(* L1 gas price worker                                                     *)
(***************************************************************************)
\* The factor of the staleness check, and the length of the fee window
StaleFactor == 10
FeeWindow == 300

\* The poll time of the worker, in units of the clock
poll_time == PollTime

\* The clock stops once a stale worker has had the time to be found out.
MaxClock == (StaleFactor + 3) * poll_time

Fees == {1, 4}

\* What get_fee_history can return in base_fee_per_blob_gas: short sequences,
\* and ones of a length above the window (the RPC answers with 301 elements)
BlobFeeSeqs ==
    UNION {[1..n -> Fees] : n \in 0..MaxHistory}
        \cup {[i \in 1..(FeeWindow + 1) |-> IF i = 1 THEN ab[1] ELSE ab[2]] :
                 ab \in {x \in Fees \X Fees : x[1] # x[2]}}

\* The base fee per gas of the blocks of a history
BaseFees == {2}

\* What get_fee_history can return: base_fee_per_gas has an entry per block as
\* base_fee_per_blob_gas has
FeeHistories ==
    {[base_fee_per_gas |-> [i \in 1..Len(b) |-> g], base_fee_per_blob_gas |-> b] :
        b \in BlobFeeSeqs, g \in BaseFees}

\* GasPrices::default()
DefaultGasPrices ==
    [eth_l1_gas_price |-> 0, strk_l1_gas_price |-> 0,
     eth_l1_data_gas_price |-> 0, strk_l1_data_gas_price |-> 0]

\* iter().sum::<u128>(): the sum of h[lo..hi], by halves
RECURSIVE SumRange(_, _, _)
SumRange(h, lo, hi) ==
    IF lo > hi THEN 0
    ELSE IF lo = hi THEN h[lo]
    ELSE LET mid == (lo + hi) \div 2
         IN SumRange(h, lo, mid) + SumRange(h, mid + 1, hi)

SumSeq(h) == SumRange(h, 1, Len(h))

\* split_at(len.max(FeeWindow) - FeeWindow).1: the last FeeWindow entries
LastWindow(h) ==
    LET mid == (IF Len(h) > FeeWindow THEN Len(h) ELSE FeeWindow) - FeeWindow
    IN  SubSeq(h, mid + 1, Len(h))

\* iter().sum() / len() of the last FeeWindow entries
avg_of_window(fees) == SumSeq(LastWindow(fees)) \div Len(LastWindow(fees))

\* The prices update_gas_price writes from a fee history with blob fees:
\* eth_gas_price is base_fee_per_blob_gas.last()
prices_from(prices, h) ==
    [prices EXCEPT !.eth_l1_gas_price = h.base_fee_per_blob_gas[Len(h.base_fee_per_blob_gas)],
                   !.eth_l1_data_gas_price = avg_of_window(h.base_fee_per_blob_gas)]

timestamp_after_fetch_Always(ts, t, fetched) == t

\* LAST_UPDATE_TIMESTAMP after get_fee_history resolved: update_gas_price
\* refreshes it once it has written the prices, and not when the fetch failed.
timestamp_after_fetch(ts, t, fetched) == IF fetched THEN t ELSE ts

guard_after_update_Held(lock) == lock

\* The mutex after drop(gas_price_guard) in update_gas_price
guard_after_update(lock) == "free"

\* The worker waits for an answer of L1: get_fee_history in update_gas_price,
\* get_latest_block_number in update_l1_block_metrics
InFlight(p) == p \in {"fetch", "metrics"}

\* The staleness check of gas_price_worker
is_stale(current_timestamp, last_update_timestamp) ==
    current_timestamp - last_update_timestamp > StaleFactor * poll_time

GasInit ==
    /\ gasPc = "init"
    /\ gasOutcome = "running"
    /\ gas_price = DefaultGasPrices
    /\ lastUpdateTs = 0
    /\ clock \in 0..1
    /\ wakeAt = 0
    /\ infinite_loop \in BOOLEAN
    /\ updateResult = "none"
    /\ startedAt = None
    /\ lastLanded = None
    /\ gasLock = "free"
    /\ lastFeeHistory = None

GasIdle ==
    /\ gasPc = "init"
    /\ gasOutcome = "running"
    /\ gas_price = DefaultGasPrices
    /\ lastUpdateTs = 0
    /\ clock = 0
    /\ wakeAt = 0
    /\ infinite_loop = FALSE
    /\ updateResult = "none"
    /\ startedAt = None
    /\ lastLanded = None
    /\ gasLock = "free"
    /\ lastFeeHistory = None

\* gas_price_worker, before its loop: update_last_update_timestamp
gas_worker_start ==
    /\ gasPc = "init"
    /\ gasPc' = "fetch"
    /\ lastUpdateTs' = clock
    /\ startedAt' = Some(clock)
    /\ UNCHANGED <<gasOutcome, gas_price, clock, wakeAt, infinite_loop, updateResult, lastLanded,
                   gasLock,
                   lastFeeHistory>>

\* update_gas_price: get_fee_history fails and the error is returned
update_gas_price_fetch_err ==
    /\ gasPc = "fetch"
    /\ gasPc' = "check"
    /\ updateResult' = "err"
    /\ lastUpdateTs' = timestamp_after_fetch(lastUpdateTs, clock, FALSE)
    /\ UNCHANGED <<gasOutcome, gas_price, clock, wakeAt, infinite_loop, startedAt, lastLanded,
                   gasLock,
                   lastFeeHistory>>

\* update_gas_price: get_fee_history answers with an empty history; the average
\* divides by its length
update_gas_price_fetch_empty ==
    /\ gasPc = "fetch"
    /\ gasPc' = "done"
    /\ gasOutcome' = "panic_div"
    /\ UNCHANGED <<gas_price, lastUpdateTs, clock, wakeAt, infinite_loop, updateResult,
                   startedAt, lastLanded, gasLock,
                   lastFeeHistory>>

\* update_gas_price: get_fee_history answers; the lock is taken, the prices are
\* written and the timestamp is refreshed
update_gas_price_fetch_ok ==
    /\ gasPc = "fetch"
    /\ gasLock = "free"
    /\ \E h \in FeeHistories :
          /\ h.base_fee_per_blob_gas # <<>>
          /\ gas_price' = prices_from(gas_price, h)
    /\ gasPc' = "locked"
    /\ gasLock' = "worker"
    /\ lastUpdateTs' = timestamp_after_fetch(lastUpdateTs, clock, TRUE)
    /\ lastLanded' = Some(clock)
    /\ UNCHANGED <<gasOutcome, clock, wakeAt, infinite_loop, updateResult, startedAt,
                   lastFeeHistory>>

\* update_gas_price: drop(gas_price_guard), then the call of
\* update_l1_block_metrics, which asks L1 for the latest block number
update_gas_price_drop_guard ==
    /\ gasPc = "locked"
    /\ gasPc' = "metrics"
    /\ gasLock' = guard_after_update(gasLock)
    /\ UNCHANGED <<gasOutcome, gas_price, lastUpdateTs, clock, wakeAt, infinite_loop,
                   updateResult, startedAt, lastLanded,
                   lastFeeHistory>>

\* update_l1_block_metrics: get_latest_block_number fails and update_gas_price
\* returns the error
update_l1_block_metrics_err ==
    /\ gasPc = "metrics"
    /\ gasPc' = "check"
    /\ updateResult' = "err"
    /\ UNCHANGED <<gasOutcome, gas_price, lastUpdateTs, clock, wakeAt, infinite_loop,
                   startedAt, lastLanded, gasLock,
                   lastFeeHistory>>

\* update_l1_block_metrics: get_latest_block_number answers; the lock is taken
\* to read the price for the metrics
update_l1_block_metrics ==
    /\ gasPc = "metrics"
    /\ gasLock = "free"
    /\ gasPc' = "metrics_locked"
    /\ gasLock' = "worker"
    /\ UNCHANGED <<gasOutcome, gas_price, lastUpdateTs, clock, wakeAt, infinite_loop,
                   updateResult, startedAt, lastLanded,
                   lastFeeHistory>>

\* update_l1_block_metrics: the metrics are set, the guard goes out of scope
\* and update_gas_price returns Ok
update_l1_block_metrics_return ==
    /\ gasPc = "metrics_locked"
    /\ gasPc' = "check"
    /\ gasLock' = "free"
    /\ updateResult' = "ok"
    /\ UNCHANGED <<gasOutcome, gas_price, lastUpdateTs, clock, wakeAt, infinite_loop,
                   startedAt, lastLanded,
                   lastFeeHistory>>

\* gas_price_worker: the staleness check, then the return or the sleep
gas_worker_check ==
    /\ gasPc = "check"
    /\ gasLock = "free"
    /\ IF is_stale(clock, lastUpdateTs)
       THEN gasPc' = "done" /\ gasOutcome' = "panic_stale" /\ UNCHANGED wakeAt
       ELSE IF ~infinite_loop
       THEN gasPc' = "done" /\ gasOutcome' = "returned" /\ UNCHANGED wakeAt
       ELSE gasPc' = "sleep" /\ wakeAt' = clock + poll_time /\ UNCHANGED gasOutcome
    /\ UNCHANGED <<gas_price, lastUpdateTs, clock, infinite_loop, updateResult, startedAt,
                   lastLanded, gasLock,
                   lastFeeHistory>>

\* The sleep is over: the next turn of the loop
gas_worker_wake ==
    /\ gasPc = "sleep"
    /\ clock >= wakeAt
    /\ gasPc' = "fetch"
    /\ UNCHANGED <<gasOutcome, gas_price, lastUpdateTs, clock, wakeAt, infinite_loop,
                   updateResult, startedAt, lastLanded, gasLock,
                   lastFeeHistory>>

\* Time passes while the worker waits for L1 or sleeps.
gas_tick ==
    /\ clock < MaxClock
    /\ \/ InFlight(gasPc)
       \/ gasPc = "sleep" /\ clock < wakeAt
    /\ clock' = clock + 1
    /\ UNCHANGED <<gasPc, gasOutcome, gas_price, lastUpdateTs, wakeAt, infinite_loop,
                   updateResult, startedAt, lastLanded, gasLock,
                   lastFeeHistory>>

\* The prices a node can hold before an update: the STRK prices are written
\* elsewhere and update_gas_price leaves them alone
StrkPrices == {0, 1, 2, 5}
PricesBefore ==
    {[DefaultGasPrices EXCEPT !.strk_l1_gas_price = a, !.strk_l1_data_gas_price = b] :
        a, b \in StrkPrices}

FeeInit ==
    /\ gasPc = "fetch"
    /\ gasOutcome = "running"
    /\ gas_price \in PricesBefore
    /\ lastUpdateTs = 0
    /\ clock = 0
    /\ wakeAt = 0
    /\ infinite_loop = FALSE
    /\ updateResult = "none"
    /\ startedAt = Some(0)
    /\ lastLanded = None
    /\ gasLock = "free"
    /\ lastFeeHistory = None

\* update_gas_price up to drop(gas_price_guard), on a fee history L1 answered
\* with: the division by the length of an empty window panics
update_gas_price_on ==
    /\ gasOutcome = "running"
    /\ \E h \in FeeHistories :
          /\ lastFeeHistory' = Some(h)
          /\ IF h.base_fee_per_blob_gas = <<>>
             THEN gasOutcome' = "panic_div" /\ UNCHANGED gas_price
             ELSE gas_price' = prices_from(gas_price, h) /\ UNCHANGED gasOutcome
    /\ UNCHANGED <<gasPc, lastUpdateTs, clock, wakeAt, infinite_loop, updateResult, startedAt,
                   lastLanded, gasLock>>

GasFrame == UNCHANGED <<msgVars, clsVars, ctxVars, svcVars, monVars, implVars, impVars, trieVars, rpcVars, gwVars, peerVars, lockVars, advVars, histVars, cmVars, parVars, tsVars>>

NextGas ==
    \/ gas_worker_start /\ GasFrame
    \/ update_gas_price_fetch_err /\ GasFrame
    \/ update_gas_price_fetch_empty /\ GasFrame
    \/ update_gas_price_fetch_ok /\ GasFrame
    \/ update_gas_price_drop_guard /\ GasFrame
    \/ update_l1_block_metrics_err /\ GasFrame
    \/ update_l1_block_metrics /\ GasFrame
    \/ update_l1_block_metrics_return /\ GasFrame
    \/ gas_worker_check /\ GasFrame
    \/ gas_worker_wake /\ GasFrame
    \/ gas_tick /\ GasFrame

NextFee ==
    \/ update_gas_price_on /\ GasFrame

(***************************************************************************)
(* A supervised service: ServiceMonitor::start, service_loop               *)
(***************************************************************************)
SERVICE_COUNT == 8
\* SERVICE_GRACE_PERIOD, in seconds
SERVICE_GRACE_PERIOD == 10

\* The service the supervisor runs here, and the index of its context in ctxs
SvcId == L1Sync
SvcCtx == 2

\* ServiceTransport
ServiceTransport(svc, st) == [svc |-> svc, status |-> st]

\* tokio broadcast, seen from one receiver: the channel keeps SERVICE_COUNT
\* messages; a receiver further behind loses the oldest and its next recv() is
\* Err(Lagged).
broadcast_send(chan, msg) ==
    IF Len(chan) >= SERVICE_COUNT THEN Append(Tail(chan), msg) ELSE Append(chan, msg)

TaskAlive(tp) == tp \in {"spawned", "running"}

\* The tokens cancelled() waits on: token_global and token_local (or token_global)
TokensCancelled(ctx, cancelled) ==
    ctx.token_global \in cancelled \/ local_or_global(ctx) \in cancelled

\* The time the service was cancelled: the first time its task is alive and
\* cancel_local or cancel_global hit its scope or its id was removed.
CancelledAtAfter(hit) ==
    IF cancelledAt = None /\ hit THEN Some(now) ELSE cancelledAt

SvcInit ==
    /\ tokParent = <<0>>
    /\ tokCancelled = {}
    /\ ctxs = <<DefaultContext>>
    /\ services \in {SvcId, BitOr(SvcId, L2Sync)}
    /\ nodeState = 0
    /\ added = {id \in ServiceIds : status(services, id) = "On"}
    /\ taskPc = "none"
    /\ taskEnd = "none"
    /\ stopperPc = "init"
    /\ rxQueue = <<>>
    /\ rxLagged = FALSE
    /\ deadline = 0
    /\ now = 0
    /\ cancelledAt = None
    /\ sends = 0

SvcIdle ==
    /\ taskPc = "none"
    /\ taskEnd = "none"
    /\ stopperPc = "init"
    /\ rxQueue = <<>>
    /\ rxLagged = FALSE
    /\ deadline = 0
    /\ now = 0
    /\ cancelledAt = None
    /\ sends = 0

\* ServiceMonitor::start, for a requested service: activate it, give it a child
\* context with its id, and spawn its task with service_loop.
svc_start ==
    /\ taskPc = "none"
    /\ Len(ctxs) = 1
    /\ status(services, SvcId) = "On"
    /\ child_with_id(1, SvcId)
    /\ taskPc' = "spawned"
    /\ cancelledAt' = CancelledAtAfter(TokensCancelled(ctxs'[SvcCtx], tokCancelled'))
    /\ UNCHANGED <<taskEnd, stopperPc, rxQueue, rxLagged, deadline, now, sends>>

\* ServiceContext::cancelled, on entry: it returns at once when the node state is
\* Shutdown, and otherwise subscribes to the service updates and waits.
cancelled_enter(st) == IF MadaraStateOf(st) # Shutdown THEN "waiting" ELSE "sleeping"

\* The first poll of the task: select! polls the service's future and stopper,
\* which enters cancelled().
task_first_poll ==
    /\ taskPc = "spawned"
    /\ taskPc' = "running"
    /\ stopperPc' = cancelled_enter(nodeState)
    /\ rxQueue' = <<>>
    /\ rxLagged' = FALSE
    /\ deadline' = IF stopperPc' = "sleeping" THEN now + SERVICE_GRACE_PERIOD ELSE deadline
    /\ UNCHANGED <<ctxVars, taskEnd, now, cancelledAt, sends>>

\* cancelled(): rx.recv() is ready.  Only Off for the id of the context ends
\* the wait; another message, or Err(Lagged), goes round the loop.
stopper_recv ==
    /\ taskPc = "running"
    /\ stopperPc = "waiting"
    /\ \/ /\ rxLagged
          /\ rxLagged' = FALSE
          /\ UNCHANGED <<rxQueue, stopperPc, deadline>>
       \/ /\ ~rxLagged
          /\ rxQueue # <<>>
          /\ rxQueue' = Tail(rxQueue)
          /\ UNCHANGED rxLagged
          /\ IF Head(rxQueue).svc = ctxs[SvcCtx].id /\ Head(rxQueue).status = "Off"
             THEN stopperPc' = "sleeping" /\ deadline' = now + SERVICE_GRACE_PERIOD
             ELSE UNCHANGED <<stopperPc, deadline>>
    /\ UNCHANGED <<ctxVars, taskPc, taskEnd, now, cancelledAt, sends>>

\* cancelled(): token_global or token_local is cancelled: break
stopper_token ==
    /\ taskPc = "running"
    /\ stopperPc = "waiting"
    /\ TokensCancelled(ctxs[SvcCtx], tokCancelled)
    /\ stopperPc' = "sleeping"
    /\ deadline' = now + SERVICE_GRACE_PERIOD
    /\ UNCHANGED <<ctxVars, taskPc, taskEnd, rxQueue, rxLagged, now, cancelledAt, sends>>

\* The sleep of stopper is over: select! drops the service's future, the task ends.
stopper_timeout ==
    /\ taskPc = "running"
    /\ stopperPc = "sleeping"
    /\ now >= deadline
    /\ stopperPc' = "done"
    /\ taskPc' = "ended"
    /\ taskEnd' = "forced"
    /\ UNCHANGED <<ctxVars, rxQueue, rxLagged, deadline, now, cancelledAt, sends>>

\* The future of the service resolves, with Ok or with an error.
runner_finish ==
    /\ taskPc = "running"
    /\ taskPc' = "ended"
    /\ \E r \in {"runner_ok", "runner_err"} : taskEnd' = r
    /\ UNCHANGED <<ctxVars, stopperPc, rxQueue, rxLagged, deadline, now, cancelledAt, sends>>

\* cancel_global or cancel_local, called on the root context or on the context
\* of the service.
svc_cancel_global ==
    /\ cancel_global(1)
    /\ cancelledAt' = CancelledAtAfter(TaskAlive(taskPc))
    /\ UNCHANGED <<taskPc, taskEnd, stopperPc, rxQueue, rxLagged, deadline, now, sends>>

svc_cancel_local ==
    /\ \E c \in DOMAIN ctxs : cancel_local(c)
    /\ cancelledAt' = CancelledAtAfter(TaskAlive(taskPc))
    /\ UNCHANGED <<taskPc, taskEnd, stopperPc, rxQueue, rxLagged, deadline, now, sends>>

\* service_add and service_remove with a receiver around: the mask changes and
\* the ServiceTransport is sent to the receivers subscribed at that time.
svc_service_add ==
    /\ sends < MaxSends
    /\ \E svc \in ServiceIds \ {Monitor} :
          /\ services' = activate(services, svc)
          /\ added' = added \cup {svc}
          /\ rxQueue' = IF stopperPc = "waiting"
                        THEN broadcast_send(rxQueue, ServiceTransport(svc, "On"))
                        ELSE rxQueue
    /\ rxLagged' = (rxLagged \/ (stopperPc = "waiting" /\ Len(rxQueue) >= SERVICE_COUNT))
    /\ sends' = sends + 1
    /\ UNCHANGED <<tokParent, tokCancelled, ctxs, nodeState, taskPc, taskEnd, stopperPc,
                   deadline, now, cancelledAt>>

svc_service_remove ==
    /\ sends < MaxSends
    /\ \E svc \in ServiceIds \ {Monitor} :
          /\ services' = deactivate(services, svc)
          /\ added' = added \ {svc}
          /\ rxQueue' = IF stopperPc = "waiting"
                        THEN broadcast_send(rxQueue, ServiceTransport(svc, "Off"))
                        ELSE rxQueue
          /\ cancelledAt' = CancelledAtAfter(svc = SvcId /\ TaskAlive(taskPc))
    /\ rxLagged' = (rxLagged \/ (stopperPc = "waiting" /\ Len(rxQueue) >= SERVICE_COUNT))
    /\ sends' = sends + 1
    /\ UNCHANGED <<tokParent, tokCancelled, ctxs, nodeState, taskPc, taskEnd, stopperPc,
                   deadline, now>>

\* ServiceContext::state_advance
state_advance ==
    /\ nodeState < MaxNodeState
    /\ nodeState' = IF nodeState + 1 > 255 THEN 255 ELSE nodeState + 1
    /\ UNCHANGED <<tokParent, tokCancelled, ctxs, services, added, svcVars>>

\* ServiceMonitor::start, join_next: the task ended with Ok(id) and the monitor
\* deactivates the id.
monitor_join ==
    /\ taskPc = "ended"
    /\ taskEnd \in {"runner_ok", "forced"}
    /\ taskPc' = "joined"
    /\ services' = deactivate(services, SvcId)
    /\ UNCHANGED <<tokParent, tokCancelled, ctxs, nodeState, added, taskEnd, stopperPc, rxQueue,
                   rxLagged, deadline, now, cancelledAt, sends>>

\* ServiceMonitor::start, the end of its loop: no service is active any more,
\* start returns and the JoinSet it drops aborts the tasks still in it.
monitor_exit ==
    /\ TaskAlive(taskPc)
    /\ services = 0
    /\ taskPc' = "ended"
    /\ taskEnd' = "aborted"
    /\ stopperPc' = "done"
    /\ UNCHANGED <<ctxVars, rxQueue, rxLagged, deadline, now, cancelledAt, sends>>

\* A poll of the task or of the monitor is due: time does not pass before it
\* is made.
PollDue ==
    \/ taskPc = "spawned"
    \/ TaskAlive(taskPc) /\ services = 0
    \/ /\ taskPc = "running"
       /\ stopperPc = "waiting"
       /\ (rxQueue # <<>> \/ rxLagged \/ TokensCancelled(ctxs[SvcCtx], tokCancelled))
    \/ /\ taskPc = "running"
       /\ stopperPc = "sleeping"
       /\ now >= deadline

tick ==
    /\ ~PollDue
    /\ now < MaxTime
    /\ now' = now + 1
    /\ UNCHANGED <<ctxVars, taskPc, taskEnd, stopperPc, rxQueue, rxLagged, deadline,
                   cancelledAt, sends>>

(***************************************************************************)
(* The supervisor: ServiceMonitor                                          *)
(***************************************************************************)
\* The services that can be registered here, and the ids service_add is called with
RegIds == {L1Sync, RpcAdmin}
MsgIds == {L1Sync, BlockProduction}

\* The mask with the bits of a set of ids
MaskOf(S) ==
    LET F[T \in SUBSET S] ==
            IF T = {} THEN 0 ELSE LET x == CHOOSE y \in T : TRUE IN BitOr(x, F[T \ {x}])
    IN  F[S]

\* u8::leading_zeros
LeadingZeros(v) ==
    IF v = 0 THEN 8
    ELSE 7 - (CHOOSE k \in 0..7 : (v \div (2 ^ k)) = 1)

\* ServiceMonitor::with, for a set of services with distinct ids: each one is
\* put in the slot of the leading zeros of its id.
RegistryOf(S) ==
    [i \in 0..(SERVICE_COUNT - 1) |->
        IF \E id \in S : LeadingZeros(id) = i
        THEN Some(CHOOSE id \in S : LeadingZeros(id) = i)
        ELSE None]

\* ServiceMonitor::start, the lookup self.services[svc as usize]: the index is
\* the id itself.  panic: the index is not in the array.
services_at(reg, svc) ==
    IF svc >= SERVICE_COUNT THEN [panic |-> TRUE, slot |-> None]
    ELSE [panic |-> FALSE, slot |-> reg[svc]]

join_outcome_AbsorbAll(kind) == "loop"

\* ServiceMonitor::start, what becomes of start after join_next gave the end of
\* a task: Ok(Ok(id)), Ok(Err(e)), Err(panic) or Err(cancelled)
join_outcome(kind) ==
    CASE kind = "ok" -> "loop"
      [] kind = "err" -> "returned_err"
      [] kind = "panic" -> "panicked"
      [] kind = "cancelled" -> "loop"

\* The condition of the loop of start, looked at after each turn
loop_check(pcAfter, mask) ==
    IF pcAfter = "loop" /\ mask = 0 THEN "returned_ok" ELSE pcAfter

MonInit ==
    /\ tokParent = <<0>>
    /\ tokCancelled = {}
    /\ ctxs = <<DefaultContext>>
    /\ nodeState = 0
    /\ \E S \in SUBSET RegIds :
          /\ registry = RegistryOf(S)
          /\ \E R \in SUBSET S :
                /\ added = R
                /\ services = MaskOf(R)
    /\ statusActual = U8Max
    /\ running = {}
    /\ joinSet = {}
    /\ monPc = "init"
    /\ monSubscribed = FALSE
    /\ monRx = <<>>
    /\ monSends = 0
    /\ lastJoin = None
    /\ lastMsg = None

MonIdle ==
    /\ registry = RegistryOf({})
    /\ statusActual = U8Max
    /\ running = {}
    /\ joinSet = {}
    /\ monPc = "init"
    /\ monSubscribed = FALSE
    /\ monRx = <<>>
    /\ monSends = 0
    /\ lastJoin = None
    /\ lastMsg = None

\* The registered services
Registered == {registry[i][1] : i \in {j \in DOMAIN registry : registry[j] # None}}

\* ServiceMonitor::start, up to its loop: every registered service whose id is
\* requested is activated and started; each start spawns the task of the
\* service with service_loop.
mon_start ==
    /\ monPc = "init"
    /\ LET S == {id \in Registered : status(services, id) = "On"} IN
         /\ running' = S
         /\ statusActual' = BitOr(statusActual, MaskOf(S))
         /\ services' = BitOr(services, MaskOf(S))
    /\ monPc' = loop_check("loop", services')
    /\ UNCHANGED <<tokParent, tokCancelled, ctxs, nodeState, added, registry, joinSet,
                   monSubscribed, monRx, monSends, lastJoin, lastMsg>>

\* The first poll of ctx.service_subscribe() in the loop: the monitor subscribes.
mon_subscribe ==
    /\ monPc = "loop"
    /\ ~monSubscribed
    /\ monSubscribed' = TRUE
    /\ UNCHANGED <<ctxVars, registry, statusActual, running, joinSet, monPc, monRx, monSends,
                   lastJoin, lastMsg>>

\* A task ends: its future returned Ok(id) or an error, panicked, or the task
\* was cancelled by the runtime.
mon_task_end ==
    /\ monPc = "loop"
    /\ \E id \in running, kind \in {"ok", "err", "panic", "cancelled"} :
          /\ running' = running \ {id}
          /\ joinSet' = joinSet \cup {<<id, kind>>}
    /\ UNCHANGED <<ctxVars, registry, statusActual, monPc, monSubscribed, monRx, monSends,
                   lastJoin, lastMsg>>

\* The join_next branch of the loop
mon_join ==
    /\ monPc = "loop"
    /\ \E t \in joinSet :
          /\ joinSet' = joinSet \ {t}
          /\ statusActual' = IF t[2] = "ok" THEN deactivate(statusActual, t[1]) ELSE statusActual
          /\ services' = IF t[2] = "ok" THEN deactivate(services, t[1]) ELSE services
          /\ monPc' = loop_check(join_outcome(t[2]), services')
          /\ lastJoin' = Some([kind |-> t[2], pc |-> monPc'])
    /\ UNCHANGED <<tokParent, tokCancelled, ctxs, nodeState, added, registry, running,
                   monSubscribed, monRx, monSends, lastMsg>>

\* The service_subscribe branch of the loop: on an On message the service in
\* the slot of the message is started if status_actual has its id Off.
mon_recv ==
    /\ monPc = "loop"
    /\ monSubscribed
    /\ monRx # <<>>
    /\ monRx' = Tail(monRx)
    /\ LET msg == Head(monRx)
           at == IF msg.status = "On" THEN services_at(registry, msg.svc)
                 ELSE [panic |-> FALSE, slot |-> None]
           id == IF at.slot # None THEN at.slot[1] ELSE Monitor
           starts == at.slot # None /\ status(statusActual, id) = "Off"
       IN /\ statusActual' = IF starts THEN activate(statusActual, id) ELSE statusActual
          /\ services' = IF starts THEN activate(services, id) ELSE services
          /\ running' = IF starts THEN running \cup {id} ELSE running
          /\ monPc' = IF at.panic THEN "panicked" ELSE loop_check("loop", services')
          /\ lastMsg' = Some([svc |-> msg.svc, status |-> msg.status,
                              registered |-> msg.svc \in Registered,
                              wasRunning |-> msg.svc \in running
                                                \/ \E t \in joinSet : t[1] = msg.svc,
                              started |-> IF starts THEN Some(id) ELSE None,
                              doubled |-> starts /\ id \in running])
    /\ UNCHANGED <<tokParent, tokCancelled, ctxs, nodeState, added, registry, joinSet,
                   monSubscribed, monSends, lastJoin>>

\* service_add and service_remove, called by whoever holds a context
mon_service_add ==
    /\ monSends < MaxSends
    /\ monSends' = monSends + 1
    /\ \E svc \in MsgIds :
          /\ service_add(svc)
          /\ monRx' = IF monSubscribed
                      THEN broadcast_send(monRx, ServiceTransport(svc, "On"))
                      ELSE monRx
    /\ UNCHANGED <<registry, statusActual, running, joinSet, monPc, monSubscribed, lastJoin,
                   lastMsg>>

mon_service_remove ==
    /\ monSends < MaxSends
    /\ monSends' = monSends + 1
    /\ \E svc \in MsgIds :
          /\ service_remove(svc)
          /\ monRx' = IF monSubscribed
                      THEN broadcast_send(monRx, ServiceTransport(svc, "Off"))
                      ELSE monRx
    /\ UNCHANGED <<registry, statusActual, running, joinSet, monPc, monSubscribed, lastJoin,
                   lastMsg>>

MonFrame == UNCHANGED <<msgVars, clsVars, svcVars, gasVars, implVars, impVars, trieVars, rpcVars, gwVars, peerVars, lockVars, advVars, histVars, cmVars, parVars, tsVars>>

NextMon ==
    \/ mon_start /\ MonFrame
    \/ mon_subscribe /\ MonFrame
    \/ mon_task_end /\ MonFrame
    \/ mon_join /\ MonFrame
    \/ mon_recv /\ MonFrame
    \/ mon_service_add /\ MonFrame
    \/ mon_service_remove /\ MonFrame

InitMon == MonInit /\ MsgIdle /\ ClsIdle /\ SvcIdle /\ GasIdle /\ ImplIdle /\ ImpIdle /\ TrieIdle /\ RpcIdle /\ GwIdle /\ PeerIdle /\ LockIdle /\ AdvIdle /\ HistIdle /\ CmIdle /\ ParIdle /\ TsIdle

SpecMon == InitMon /\ [][NextMon]_vars

\* ServiceMonitor::start, the task spawned around tokio::signal::ctrl_c(): on
\* the signal it calls cancel_global on a clone of the context of the monitor.
mon_ctrl_c ==
    /\ monPc = "loop"
    /\ cancel_global(1)
    /\ UNCHANGED monVars

\* The global token of the monitor's context is cancelled
GlobalCancelled == ctxs[1].token_global \in tokCancelled

\* ServiceRunner::stopper in the select! of service_loop: once the token is
\* cancelled a running task ends when the grace period is over, at the latest.
stopper ==
    /\ GlobalCancelled
    /\ mon_task_end

NextStop ==
    \/ mon_start /\ MonFrame
    \/ mon_subscribe /\ MonFrame
    \/ mon_task_end /\ MonFrame
    \/ mon_join /\ MonFrame
    \/ mon_recv /\ MonFrame
    \/ mon_service_add /\ MonFrame
    \/ mon_service_remove /\ MonFrame
    \/ mon_ctrl_c /\ MonFrame

\* The runtime keeps polling start and the tasks of its join set: a branch of
\* the select! that stays ready is taken, and a cancelled task is stopped.
FairStop ==
    /\ WF_vars(mon_start /\ MonFrame)
    /\ WF_vars(mon_subscribe /\ MonFrame)
    /\ WF_vars(stopper /\ MonFrame)
    /\ WF_vars(mon_join /\ MonFrame)
    /\ WF_vars(mon_recv /\ MonFrame)

SpecStop == InitMon /\ [][NextStop]_vars /\ FairStop

\* What a step of the supervised service leaves alone.
SvcFrame == UNCHANGED <<msgVars, clsVars, gasVars, monVars, implVars, impVars, trieVars, rpcVars, gwVars, peerVars, lockVars, advVars, histVars, cmVars, parVars, tsVars>>

NextSvc ==
    \/ svc_start /\ SvcFrame
    \/ task_first_poll /\ SvcFrame
    \/ stopper_recv /\ SvcFrame
    \/ stopper_token /\ SvcFrame
    \/ stopper_timeout /\ SvcFrame
    \/ runner_finish /\ SvcFrame
    \/ svc_cancel_global /\ SvcFrame
    \/ svc_cancel_local /\ SvcFrame
    \/ svc_service_add /\ SvcFrame
    \/ svc_service_remove /\ SvcFrame
    \/ state_advance /\ SvcFrame
    \/ monitor_join /\ SvcFrame
    \/ monitor_exit /\ SvcFrame
    \/ tick /\ SvcFrame

InitSvc == SvcInit /\ MsgIdle /\ ClsIdle /\ GasIdle /\ MonIdle /\ ImplIdle /\ ImpIdle /\ TrieIdle /\ RpcIdle /\ GwIdle /\ PeerIdle /\ LockIdle /\ AdvIdle /\ HistIdle /\ CmIdle /\ ParIdle /\ TsIdle

SpecSvc == InitSvc /\ [][NextSvc]_vars

\* What a step on the contexts leaves alone.
CtxFrame == UNCHANGED <<msgVars, clsVars, svcVars, gasVars, monVars, implVars, impVars, trieVars, rpcVars, gwVars, peerVars, lockVars, advVars, histVars, cmVars, parVars, tsVars>>

NextCtx ==
    \/ \E c \in DOMAIN ctxs : cancel_local(c) /\ CtxFrame
    \/ \E c \in DOMAIN ctxs : cancel_global(c) /\ CtxFrame
    \/ \E c \in DOMAIN ctxs, id \in ServiceIds \ {Monitor} : child_with_id(c, id) /\ CtxFrame
    \/ \E c \in DOMAIN ctxs : clone(c) /\ CtxFrame
    \/ \E svc \in ServiceIds : service_add(svc) /\ CtxFrame
    \/ \E svc \in ServiceIds : service_remove(svc) /\ CtxFrame

InitCtx == CtxInit /\ MsgIdle /\ ClsIdle /\ SvcIdle /\ GasIdle /\ MonIdle /\ ImplIdle /\ ImpIdle /\ TrieIdle /\ RpcIdle /\ GwIdle /\ PeerIdle /\ LockIdle /\ AdvIdle /\ HistIdle /\ CmIdle /\ ParIdle /\ TsIdle

SpecCtx == InitCtx /\ [][NextCtx]_vars

\* The contexts together with the calls of service_remove made so far and
\* with the node state advancing
CancelFrame == UNCHANGED <<msgVars, clsVars, svcVars, gasVars, monVars, implVars, impVars, trieVars, rpcVars, gwVars, peerVars, lockVars, advVars, cmVars, parVars, tsVars>>

NextCancel ==
    \/ \E c \in DOMAIN ctxs : cancel_local(c) /\ UNCHANGED svcRemoved /\ CancelFrame
    \/ \E c \in DOMAIN ctxs : cancel_global(c) /\ UNCHANGED svcRemoved /\ CancelFrame
    \/ \E c \in DOMAIN ctxs, id \in ServiceIds \ {Monitor} : child_with_id(c, id) /\ UNCHANGED svcRemoved /\ CancelFrame
    \/ \E svc \in ServiceIds : service_add(svc) /\ UNCHANGED svcRemoved /\ CancelFrame
    \/ \E svc \in ServiceIds : service_remove(svc) /\ svcRemoved' = svcRemoved \cup {svc} /\ CancelFrame
    \/ state_advance /\ UNCHANGED svcRemoved /\ CancelFrame

InitCancel == InitCtx /\ CmIdle /\ ParIdle /\ TsIdle

SpecCancel == InitCancel /\ [][NextCancel]_vars

\* The activation mask alone, with every service id
NextMask ==
    \/ \E svc \in MadaraServices : service_add(svc) /\ CtxFrame
    \/ \E svc \in MadaraServices : service_remove(svc) /\ CtxFrame

SpecMask == InitCtx /\ [][NextMask]_vars

\* What a step of the messaging worker leaves alone.
MsgFrame == UNCHANGED <<clsVars, ctxVars, svcVars, gasVars, monVars, implVars, impVars, trieVars, rpcVars, gwVars, peerVars, lockVars, advVars, histVars, cmVars, parVars, tsVars>>

NextMsg ==
    \/ l1_cancel /\ MsgFrame
    \/ sync_start /\ MsgFrame
    \/ sync_next_event /\ MsgFrame
    \/ sync_handle_event /\ MsgFrame
    \/ sync_event_error /\ MsgFrame
    \/ sync_query_error /\ MsgFrame
    \/ sync_loop_exit /\ MsgFrame
    \/ sync_dropped /\ MsgFrame

InitMsg == MsgInit /\ ClsIdle /\ CtxIdle /\ SvcIdle /\ GasIdle /\ MonIdle /\ ImplIdle /\ ImpIdle /\ TrieIdle /\ RpcIdle /\ GwIdle /\ PeerIdle /\ LockIdle /\ AdvIdle /\ HistIdle /\ CmIdle /\ ParIdle /\ TsIdle

SpecMsg == InitMsg /\ [][NextMsg]_vars

\* The stream under EthereumEventStream has given all the events of the log
InnerStreamOver == pos > Len(l1Log)

\* What the stream under EthereumEventStream answers when it is polled: an
\* event, or None once the log is read to its end.  Polled again after None it
\* gives None again, stays pending, or panics (the Stream contract leaves it
\* open).
inner_poll_next(polledAfterEnd) ==
    IF ~InnerStreamOver THEN {"item"}
    ELSE IF polledAfterEnd THEN {"none", "pending", "panic"} ELSE {"none"}

\* EthereumEventStream::poll_next: Ready(Some(x)) of the stream under it
\* becomes Ready(Some(Some(..))), Ready(None) becomes Ready(Some(None)).
EthereumEventStream_poll_next(inner) ==
    CASE inner = "item" -> "Some(Some(event))"
      [] inner = "none" -> "Some(None)"
      [] inner = "pending" -> "Pending"
      [] inner = "panic" -> "panic"

\* sync, the loop polling the stream after its last event: Some(None) matches
\* Some(Some(event_result)) with event_result = None, the body does nothing and
\* the loop polls again.
sync_poll_over ==
    /\ pc = "next"
    /\ InnerStreamOver
    /\ \E inner \in inner_poll_next(lastOutcome = "over") :
          LET polled == EthereumEventStream_poll_next(inner) IN
            /\ pc' = CASE polled = "Some(None)" -> "next"
                       [] polled = "Pending" -> "pending"
                       [] polled = "panic" -> "idle"
            /\ result' = IF polled = "panic" THEN "panicked" ELSE result
            /\ lastOutcome' = IF polled = "panic" THEN "panic" ELSE "over"
    /\ UNCHANGED <<l1Log, l1Cancelled, nonces, cursor, mempool, attempts, pos, runs,
                   hashCalls, cancelCalls>>

\* sync, run_until_cancelled yields None: the context was cancelled while sync
\* waited for the stream, the loop ends and sync returns Ok(()).
sync_cancelled ==
    /\ pc \in {"next", "pending"}
    /\ pc' = "idle"
    /\ result' = "ok"
    /\ lastOutcome' = "cancelled"
    /\ UNCHANGED <<l1Log, l1Cancelled, nonces, cursor, mempool, attempts, pos, runs,
                   hashCalls, cancelCalls>>

NextStream ==
    \/ l1_cancel /\ MsgFrame
    \/ sync_start /\ MsgFrame
    \/ sync_next_event /\ MsgFrame
    \/ sync_handle_event /\ MsgFrame
    \/ sync_event_error /\ MsgFrame
    \/ sync_query_error /\ MsgFrame
    \/ sync_poll_over /\ MsgFrame
    \/ sync_cancelled /\ MsgFrame
    \/ sync_dropped /\ MsgFrame

\* The runtime keeps polling sync: a step of its loop that can be taken is
\* taken.  Nothing makes a cancellation come.
FairStream ==
    /\ WF_vars(sync_next_event /\ MsgFrame)
    /\ WF_vars(sync_handle_event /\ MsgFrame)
    /\ WF_vars(sync_poll_over /\ MsgFrame)

SpecStream == InitMsg /\ [][NextStream]_vars /\ FairStream

\* What a step of the class database leaves alone.
ClsFrame == UNCHANGED <<msgVars, ctxVars, svcVars, gasVars, monVars, implVars, impVars, trieVars, rpcVars, gwVars, peerVars, lockVars, advVars, histVars, cmVars, parVars, tsVars>>

NextClass ==
    \/ class_db_store_block /\ ClsFrame
    \/ class_db_store_pending /\ ClsFrame
    \/ class_db_clear_pending /\ ClsFrame
    \/ class_db_clear_pending_compiled /\ ClsFrame

InitClass == ClsInit /\ MsgIdle /\ CtxIdle /\ SvcIdle /\ GasIdle /\ MonIdle /\ ImplIdle /\ ImpIdle /\ TrieIdle /\ RpcIdle /\ GwIdle /\ PeerIdle /\ LockIdle /\ AdvIdle /\ HistIdle /\ CmIdle /\ ParIdle /\ TsIdle

SpecClass == InitClass /\ [][NextClass]_vars

InitGas == GasInit /\ MsgIdle /\ ClsIdle /\ CtxIdle /\ SvcIdle /\ MonIdle /\ ImplIdle /\ ImpIdle /\ TrieIdle /\ RpcIdle /\ GwIdle /\ PeerIdle /\ LockIdle /\ AdvIdle /\ HistIdle /\ CmIdle /\ ParIdle /\ TsIdle

SpecGas == InitGas /\ [][NextGas]_vars

\* The gas worker, with the timestamp noted where a turn of its loop calls
\* update_gas_price.
TsFrame == UNCHANGED <<msgVars, clsVars, ctxVars, svcVars, monVars, implVars, impVars, trieVars, rpcVars, gwVars, peerVars, lockVars, advVars, histVars, cmVars, parVars>>

NextTs ==
    \/ gas_worker_start /\ tsAtCall' = lastUpdateTs' /\ TsFrame
    \/ update_gas_price_fetch_err /\ UNCHANGED tsAtCall /\ TsFrame
    \/ update_gas_price_fetch_empty /\ UNCHANGED tsAtCall /\ TsFrame
    \/ update_gas_price_fetch_ok /\ UNCHANGED tsAtCall /\ TsFrame
    \/ update_gas_price_drop_guard /\ UNCHANGED tsAtCall /\ TsFrame
    \/ update_l1_block_metrics_err /\ UNCHANGED tsAtCall /\ TsFrame
    \/ update_l1_block_metrics /\ UNCHANGED tsAtCall /\ TsFrame
    \/ update_l1_block_metrics_return /\ UNCHANGED tsAtCall /\ TsFrame
    \/ gas_worker_check /\ UNCHANGED tsAtCall /\ TsFrame
    \/ gas_worker_wake /\ tsAtCall' = lastUpdateTs /\ TsFrame
    \/ gas_tick /\ UNCHANGED tsAtCall /\ TsFrame

SpecTs == InitGas /\ [][NextTs]_vars

InitImpl == ImplInit /\ MsgIdle /\ ClsIdle /\ CtxIdle /\ SvcIdle /\ GasIdle /\ MonIdle /\ ImpIdle /\ TrieIdle /\ RpcIdle /\ GwIdle /\ PeerIdle /\ LockIdle /\ AdvIdle /\ HistIdle /\ CmIdle /\ ParIdle /\ TsIdle

SpecImpl == InitImpl /\ [][NextImpl]_vars

InitImport == ImpInit /\ MsgIdle /\ CtxIdle /\ SvcIdle /\ GasIdle /\ MonIdle /\ ImplIdle /\ TrieIdle /\ RpcIdle /\ GwIdle /\ PeerIdle /\ LockIdle /\ AdvIdle /\ HistIdle /\ CmIdle /\ ParIdle /\ TsIdle

SpecImport == InitImport /\ [][NextImport]_vars

InitTrie == TrieInit /\ MsgIdle /\ ClsIdle /\ CtxIdle /\ SvcIdle /\ GasIdle /\ MonIdle /\ ImplIdle /\ ImpIdle /\ RpcIdle /\ GwIdle /\ PeerIdle /\ LockIdle /\ AdvIdle /\ HistIdle /\ CmIdle /\ ParIdle /\ TsIdle

SpecTrie == InitTrie /\ [][NextTrie]_vars

InitFee == FeeInit /\ MsgIdle /\ ClsIdle /\ CtxIdle /\ SvcIdle /\ MonIdle /\ ImplIdle /\ ImpIdle /\ TrieIdle /\ RpcIdle /\ GwIdle /\ PeerIdle /\ LockIdle /\ AdvIdle /\ HistIdle /\ CmIdle /\ ParIdle /\ TsIdle

SpecFee == InitFee /\ [][NextFee]_vars

InitRpc == RpcInit /\ MsgIdle /\ ClsIdle /\ ImpIdle /\ TrieIdle /\ CtxIdle /\ ImplIdle /\ GasIdle /\ SvcIdle /\ MonIdle /\ GwIdle /\ PeerIdle /\ LockIdle /\ AdvIdle /\ HistIdle /\ CmIdle /\ ParIdle /\ TsIdle

SpecRpc == InitRpc /\ [][NextRpc]_vars

InitGw == GwInit /\ MsgIdle /\ ClsIdle /\ ImpIdle /\ TrieIdle /\ RpcIdle /\ CtxIdle /\ ImplIdle /\ GasIdle /\ SvcIdle /\ MonIdle /\ PeerIdle /\ LockIdle /\ AdvIdle /\ HistIdle /\ CmIdle /\ ParIdle /\ TsIdle

SpecGw == InitGw /\ [][NextGw]_vars

InitPeer == PeerInit /\ MsgIdle /\ ClsIdle /\ ImpIdle /\ TrieIdle /\ RpcIdle /\ GwIdle /\ CtxIdle /\ ImplIdle /\ GasIdle /\ SvcIdle /\ MonIdle /\ LockIdle /\ AdvIdle /\ HistIdle /\ CmIdle /\ ParIdle /\ TsIdle

SpecPeer == InitPeer /\ [][NextPeer]_vars

InitLock == LockInit /\ MsgIdle /\ ClsIdle /\ ImpIdle /\ TrieIdle /\ RpcIdle /\ GwIdle /\ PeerIdle /\ CtxIdle /\ ImplIdle /\ GasIdle /\ SvcIdle /\ MonIdle /\ AdvIdle /\ HistIdle /\ CmIdle /\ ParIdle /\ TsIdle

SpecLock == InitLock /\ [][NextLock]_vars

InitAdv == AdvInit /\ MsgIdle /\ ClsIdle /\ ImpIdle /\ TrieIdle /\ RpcIdle /\ GwIdle /\ PeerIdle /\ LockIdle /\ CtxIdle /\ ImplIdle /\ GasIdle /\ SvcIdle /\ MonIdle /\ HistIdle /\ CmIdle /\ ParIdle /\ TsIdle

SpecAdv == InitAdv /\ [][NextAdv]_vars

InitCm == CmInit /\ MsgIdle /\ ClsIdle /\ ImpIdle /\ TrieIdle /\ RpcIdle /\ GwIdle /\ PeerIdle /\ LockIdle /\ AdvIdle /\ HistIdle /\ CtxIdle /\ ImplIdle /\ GasIdle /\ SvcIdle /\ MonIdle /\ ParIdle /\ TsIdle

SpecCm == InitCm /\ [][NextCm]_vars

InitPar == ParInit /\ MsgIdle /\ ClsIdle /\ ImpIdle /\ TrieIdle /\ RpcIdle /\ GwIdle /\ PeerIdle /\ LockIdle /\ AdvIdle /\ CmIdle /\ HistIdle /\ CtxIdle /\ ImplIdle /\ GasIdle /\ SvcIdle /\ MonIdle /\ TsIdle

SpecPar == InitPar /\ [][NextPar]_vars

(***************************************************************************)
(* Properties of the messaging worker                                      *)
(***************************************************************************)
AllEventsConsumed == \A k \in DOMAIN l1Log : l1Log[k].nonce \in nonces

\* C1: whatever the events and however often the worker is stopped and started
\* again, the mempool receives at most one L1-handler transaction per nonce, and
\* once every event of the log is consumed a replay inserts nothing.
C1_AtMostOncePerNonce ==
    /\ [](\A n \in Nonces : CountIn(mempool, n) <= 1)
    /\ [][AllEventsConsumed => mempool' = mempool]_vars

C1_Witness ==
    /\ runs >= 2
    /\ Len(mempool) = 2
    /\ AllEventsConsumed
    /\ lastOutcome = "already"

\* C2: the cursor moves to an event's (block_number, event_index) only in the
\* step that submitted that event to the mempool successfully, or skipped it
\* successfully; a failed mempool submission leaves the cursor where it was.
C2_CursorOnlyAfterSuccess ==
    [][/\ (cursor' # cursor =>
            /\ pc = "query"
            /\ cursor' = EventPos(l1Log[pos])
            /\ \/ mempool' = Append(mempool, l1Log[pos].nonce)
               \/ lastOutcome' \in {"already", "cancelled"})
       /\ (lastOutcome' = "mempool_err" /\ pc = "query" => cursor' = cursor)]_vars

C2_Witness ==
    /\ lastOutcome = "mempool_err"
    /\ Len(mempool) = 1
    /\ pos = 2
    /\ cursor = EventPos(l1Log[1])
    /\ cursor # LastSyncedEventBlock(0, 0)
    /\ attempts[l1Log[2].nonce] = 1

\* C7: when the settlement layer reports a nonzero cancellation timestamp for
\* the hash of the event at hand, the worker records the nonce of the event in
\* L1MessagingNonces and hands nothing to the mempool.
C7_CancelledIsBurntNotSubmitted ==
    [][(/\ pc = "query"
        /\ CancellationTimestamp(MessagingHash(l1Log[pos])) # 0
        /\ lastOutcome' \notin {"checking", "query_err", "dropped"})
       => /\ l1Log[pos].nonce \in nonces'
          /\ mempool' = mempool
          /\ attempts' = attempts]_vars

C7_Witness ==
    /\ lastOutcome = "cancelled"
    /\ pos \in DOMAIN l1Log
    /\ l1Log[pos].nonce \in nonces
    /\ MessagingHash(l1Log[pos]) \in l1Cancelled
    /\ attempts[l1Log[pos].nonce] = 0

\* C8: after the step that skips an event because its message was cancelled
\* on L1, the cursor is at or past that event.
C8_CursorPastCancelled ==
    [][(pc = "query" /\ lastOutcome' = "cancelled")
       => PosLeq(EventPos(l1Log[pos]), cursor')]_vars

\* C9: an event whose nonce is already in L1MessagingNonces costs no hash
\* computation, no cancellation query and no mempool submission, and the worker
\* goes on to the next event of the stream.
C9_SkipAndContinue ==
    [][(pc = "next" /\ pos <= Len(l1Log) /\ l1Log[pos].nonce \in nonces
        /\ lastOutcome' = "already")
       => /\ hashCalls' = hashCalls
          /\ cancelCalls' = cancelCalls
          /\ mempool' = mempool
          /\ attempts' = attempts
          /\ pc' = "next"
          /\ pos' = pos + 1]_vars

\* C10: the cursor never decreases in (block_number, event_index) order.
C10_CursorMonotone == [][PosLeq(cursor, cursor')]_vars

C10_Witness ==
    /\ lastOutcome = "already"
    /\ pos \in DOMAIN l1Log
    /\ PosLeq(EventPos(l1Log[pos]), cursor)
    /\ cursor # LastSyncedEventBlock(0, 0)
    /\ Len(mempool) >= 1


C18_PendingClearedAtOnce ==
    [][(classDb.PendingClassInfo # EmptyCol /\ classDb'.PendingClassInfo = EmptyCol)
          => classDb'.PendingClassCompiled = EmptyCol]_vars

\* The classes declared in the pending block and in no confirmed block
PendingOnly ==
    {h \in DOMAIN classDb.PendingClassInfo :
        \A B \in StoredBlocks : h \notin declaredIn[B][1]}

\* C17: a class declared in the pending block only is returned to a Pending
\* query and to no query at a block number.
C17_PendingOnlyVisibleToPending ==
    \A h \in PendingOnly :
        /\ get_class_info(classDb, Pending, h) = Some(h)
        /\ \A N \in BlockNs : get_class_info(classDb, BlockN(N), h) = None

C17_Witness ==
    \E h \in PendingOnly :
        /\ StoredBlocks = BlockNs
        /\ \E g \in Classes : \E B \in StoredBlocks : g \in declaredIn[B][1]
        /\ get_class_info(classDb, Pending, h) = Some(h)
        /\ get_class_info(classDb, BlockN(MaxBlockN), h) = None

\* What one run of the import without a failing write leaves in the database
ImportedOnce ==
    store_classes(impBase, impBlock, impClasses, impClasses,
                  ColInfoOf(impBlock), ColCompiledOf(impBlock))

\* C19: when a run of the import failed part-way and a later run of the same
\* import went through, the database is the one a single run without failure
\* gives.
C19_RerunCompletesImport ==
    impState = "rerun_done" => classDb = ImportedOnce

\* The same for an import into the pending block, and for a first run that
\* goes through.
C19_PendingRerunCompletes ==
    /\ (impState = "rerun_done" /\ impBlock = Pending) => classDb = ImportedOnce
    /\ impState = "done" => classDb = ImportedOnce

\* The leaf of a contract from its class hash, storage root and nonce as of the
\* last block
LeafAsOfBlock(c) ==
    PedersenHasher_hash_elements(
        PedersenHasher_hash_elements(
            PedersenHasher_hash_elements(classHashOf[c], storage_root_of(storageTrie[c])),
            nonceOf[c]),
        FieldElementZero)

\* C20: after a block is committed, every contract its state diff touches, by
\* a storage update, a nonce change or a deployment, has in the contract trie
\* the leaf made of its class hash, storage root and nonce as of that block.
C20_TouchedLeafRecomputed ==
    trieBlock > 0 =>
        \A c \in leaf_addresses_Touched(lastCsd) : contractTrie[c] = Some(LeafAsOfBlock(c))

\* The same for the contracts whose storage and nonce both change in the block
C20_StorageAndNonceLeafRecomputed ==
    trieBlock > 0 =>
        \A c \in Contracts :
            (lastCsd.storage_updates[c] # None /\ lastCsd.address_to_nonce[c] # None)
                => contractTrie[c] = Some(LeafAsOfBlock(c))

(***************************************************************************)
(* Properties of the service contexts                                      *)
(***************************************************************************)
\* The scopes above a context in the tree of contexts, its own included.
RECURSIVE ScopesAbove(_)
ScopesAbove(sc) == IF sc = 0 THEN {} ELSE {sc} \cup ScopesAbove(ctxs[sc].parent_scope)

\* d is in the subtree of c: in the scope of c, or in a scope opened below it.
InSubtree(c, d) == ctxs[c].scope \in ScopesAbove(ctxs[d].scope)

\* C4: cancel_local on a context cancels the contexts of its subtree and no
\* other: a context outside the subtree is cancelled after the call only if it
\* was before.
C4_CancelLocalOnlySubtree ==
    [][\A c \in DOMAIN ctxs :
          cancel_local(c) =>
              \A d \in DOMAIN ctxs :
                  is_cancelled(ctxs[d], tokCancelled', services', nodeState')
                      <=> \/ is_cancelled(ctxs[d], tokCancelled, services, nodeState)
                          \/ InSubtree(c, d)]_vars

\* A child was cancelled with cancel_local: it and its own child are cancelled,
\* its parent and its sibling are not.
C4_Witness ==
    /\ Len(ctxs) = 4
    /\ ctxs[2].parent_scope = 1 /\ ctxs[3].parent_scope = 1 /\ ctxs[4].parent_scope = 2
    /\ ctxs[2].id = L1Sync /\ ctxs[3].id = L2Sync /\ ctxs[4].id = L1Sync
    /\ services = 6
    /\ tokCancelled = {local_or_global(ctxs[2]), local_or_global(ctxs[4])}
    /\ is_cancelled(ctxs[2], tokCancelled, services, nodeState)
    /\ is_cancelled(ctxs[4], tokCancelled, services, nodeState)
    /\ ~is_cancelled(ctxs[3], tokCancelled, services, nodeState)
    /\ 1 \notin tokCancelled

(***************************************************************************)
(* Properties of the supervised service                                    *)
(***************************************************************************)
\* C5: the task of a service does not outlive its cancellation by more than
\* SERVICE_GRACE_PERIOD: once the service is cancelled (cancel_local or
\* cancel_global in its scope, or service_remove of its id), its task has ended
\* by the time the grace period is over.
C5_EndsWithinGracePeriod ==
    (TaskAlive(taskPc) /\ cancelledAt # None) => now <= cancelledAt[1] + SERVICE_GRACE_PERIOD

(***************************************************************************)
(* Properties of the gas price worker                                      *)
(***************************************************************************)
\* The last time prices landed in gas_price, or the start of the worker
LastSuccess == IF lastLanded # None THEN lastLanded[1] ELSE startedAt[1]

\* C6: when the worker makes its staleness check and no gas price update has
\* landed for more than StaleFactor * poll_time, the worker aborts with the
\* stale-prices panic.
C6_StaleWorkerAborts ==
    [][(gasPc = "check" /\ gasPc' # "check" /\ clock - LastSuccess > StaleFactor * poll_time)
          => gasOutcome' = "panic_stale"]_vars

\* An update landed, more than StaleFactor * poll_time went by without another
\* one, and the worker aborted.
C6_Witness ==
    /\ gasOutcome = "panic_stale"
    /\ lastLanded # None
    /\ clock - lastLanded[1] > StaleFactor * poll_time

\* C21: the worker never waits for an answer of L1 while it holds the mutex of
\* gas_price; it holds it only between taking it and the end of the update of
\* the prices in memory, or of the read for the metrics.
C21_NoLockAcrossIo ==
    gasLock = "worker" => (~InFlight(gasPc) /\ gasPc \in {"locked", "metrics_locked"})

\* The worker holds the mutex, the prices of a fee history written
C21_Witness ==
    /\ gasLock = "worker"
    /\ gasPc = "locked"
    /\ gas_price # DefaultGasPrices

\* C22: once update_gas_price has written the prices of a fee history,
\* eth_l1_data_gas_price is the average of the blob base fees of its last
\* FeeWindow entries and eth_l1_gas_price is its last base fee.
C22_PricesFromFeeHistory ==
    (lastFeeHistory # None /\ gasOutcome = "running") =>
        LET h == lastFeeHistory[1]
        IN /\ gas_price.eth_l1_data_gas_price = avg_of_window(h.base_fee_per_blob_gas)
           /\ gas_price.eth_l1_gas_price = h.base_fee_per_gas[Len(h.base_fee_per_gas)]

\* The half of C22 about the data gas price
C22_DataGasPriceIsWindowAverage ==
    (lastFeeHistory # None /\ gasOutcome = "running") =>
        gas_price.eth_l1_data_gas_price = avg_of_window(lastFeeHistory[1].base_fee_per_blob_gas)

\* C11: while the mempool has refused the L1-handler transaction of an event
\* and not admitted it since, the worker is still running and still holds that
\* event: it has not returned and has read no further event.
C11_HoldsRefusedEvent ==
    \A n \in Nonces :
        (attempts[n] > 0 /\ CountIn(mempool, n) = 0)
            => /\ pc # "idle"
               /\ pos <= Len(l1Log)
               /\ l1Log[pos].nonce = n

\* C12: when the service was cancelled (cancel_local or cancel_global in its
\* scope, or service_remove of its id, before or after the first poll) and is
\* still cancelled, cancelled() is not left waiting with nothing to wake it: a
\* token it waits on is cancelled or the Off message of its id is in its receiver.
C12_CancelledCompletes ==
    (/\ taskPc = "running"
     /\ stopperPc = "waiting"
     /\ cancelledAt # None
     /\ (TokensCancelled(ctxs[SvcCtx], tokCancelled) \/ status(services, SvcId) = "Off"))
        => \/ TokensCancelled(ctxs[SvcCtx], tokCancelled)
           \/ \E i \in DOMAIN rxQueue : rxQueue[i] = ServiceTransport(ctxs[SvcCtx].id, "Off")

(***************************************************************************)
(* Properties of the activation mask                                       *)
(***************************************************************************)
\* C13: the status of every service id is On exactly when the id was given to
\* service_add and not to service_remove since.
C13_StatusIffAdded ==
    \A id \in MadaraServices : status(services, id) = "On" <=> id \in added

\* The same for the ids other than Monitor.
C13_StatusIffAddedButMonitor ==
    \A id \in MadaraServices \ {Monitor} : status(services, id) = "On" <=> id \in added

(***************************************************************************)
(* Properties of the supervisor                                            *)
(***************************************************************************)
\* C14: when start joins a task that panicked, start panics in its turn; when
\* it joins a task that was cancelled, start goes on (or returns Ok when no
\* service is active any more): it does not fail.
C14_PanicRaisedCancelAbsorbed ==
    lastJoin # None =>
        /\ lastJoin[1].kind = "panic" => lastJoin[1].pc = "panicked"
        /\ lastJoin[1].kind = "cancelled" => lastJoin[1].pc \in {"loop", "returned_ok"}

\* A task panicked while start ran and start re-raised the panic.
C14_Witness ==
    /\ lastJoin # None
    /\ lastJoin[1].kind = "panic"
    /\ monPc = "panicked"

\* C15: when start handles the On message of a registered service that is not
\* running, it starts that service; and it never starts a service whose task is
\* running.
C15_StartsTheServiceAdded ==
    lastMsg # None =>
        /\ (/\ lastMsg[1].status = "On"
            /\ lastMsg[1].registered
            /\ ~lastMsg[1].wasRunning) => lastMsg[1].started = Some(lastMsg[1].svc)
        /\ ~lastMsg[1].doubled

\* The second half of C15 alone: no service is started while its task runs.
C15_NeverStartsRunning ==
    lastMsg # None => ~lastMsg[1].doubled

(***************************************************************************)
(* Properties of the Service implementations                               *)
(***************************************************************************)
\* C16: every call of start on a service whose task has shut down succeeds:
\* it returns Ok, neither an error nor a panic.
C16_RestartSucceeds ==
    \A i \in DOMAIN implLog : implLog[i].restart => implLog[i].res = "ok"
(***************************************************************************)
(* Properties of the JSON-RPC methods                                      *)
(***************************************************************************)
\* The block a request of the last call resolves to (None: not stored)
LastResolved == resolve_block_id(chain, pendingBlock, rpcLast[1].block_id)

LastIs(m) == rpcLast # None /\ rpcLast[1].method = m

\* C23: get_storage_at answers BlockNotFound when the block is not stored,
\* whatever the contract; else ContractNotFound when the contract is not
\* deployed at the block; else the value stored, ZERO for a key never written.
C23_StorageAtErrorOrder ==
    LastIs("get_storage_at") =>
        LET c == rpcLast[1].arg[1]
            k == rpcLast[1].arg[2]
            res == rpcLast[1].res
        IN IF LastResolved = None THEN res = Err("BlockNotFound")
           ELSE IF get_contract_class_hash_at(chain, pendingBlock, LastResolved[1], c) = None
           THEN res = Err("ContractNotFound")
           ELSE IF get_contract_storage_at(chain, pendingBlock, LastResolved[1], c, k) = None
           THEN res = Ok(FeltZero)
           ELSE res = Ok(get_contract_storage_at(chain, pendingBlock, LastResolved[1], c, k)[1])

\* A request for a block that is not stored and a contract that is deployed
\* nowhere was answered
C23_Witness ==
    /\ LastIs("get_storage_at")
    /\ LastResolved = None
    /\ rpcLast[1].arg[1] = UnknownContract
    /\ chain # <<>>

\* C24: a confirmed block N is reported AcceptedOnL1 iff a last block confirmed
\* on L1 is known and N is at most that block, and AcceptedOnL2 otherwise.
C24_AcceptedOnL1IffConfirmed ==
    (LastIs("get_block_with_tx_hashes") /\ LastResolved # None /\ LastResolved[1] # Pending) =>
        LET N == LastResolved[1][2]
            res == rpcLast[1].res
        IN /\ res.ok
           /\ res.val.kind = "Block"
           /\ res.val.status =
                 IF l1_last_confirmed # None /\ N <= l1_last_confirmed[1]
                 THEN "AcceptedOnL1" ELSE "AcceptedOnL2"

\* The same once a last block confirmed on L1 is written
C24_StatusOnceL1Written ==
    (LastIs("get_block_with_tx_hashes") /\ LastResolved # None /\ LastResolved[1] # Pending
        /\ l1_last_confirmed # None) =>
        rpcLast[1].res.val.status =
            IF LastResolved[1][2] <= l1_last_confirmed[1] THEN "AcceptedOnL1" ELSE "AcceptedOnL2"

\* The protocol version of the header of the block of the last call
LastVersion ==
    get_block_info(chain, pendingBlock, rpcLast[1].block_id)[1].protocol_version

\* C25: for a block with a protocol version below 0.13.1.1, trace_transaction,
\* trace_block_transactions and estimate_message_fee answer
\* UnsupportedTxnVersion.
C25_OldVersionUnsupported ==
    (/\ rpcLast # None
     /\ rpcLast[1].method \in {"trace_transaction", "trace_block_transactions",
                               "estimate_message_fee"}
     /\ LastResolved # None
     /\ VersionLt(LastVersion, STARKNET_VERSION_0_13_1_1))
        => rpcLast[1].res = Err("UnsupportedTxnVersion")

\* The same for trace_transaction and estimate_message_fee alone
C25_GateOfTraceTransactionAndEstimate ==
    (/\ rpcLast # None
     /\ rpcLast[1].method \in {"trace_transaction", "estimate_message_fee"}
     /\ LastResolved # None
     /\ VersionLt(LastVersion, STARKNET_VERSION_0_13_1_1))
        => rpcLast[1].res = Err("UnsupportedTxnVersion")

\* C26: estimate_message_fee on a block it supports returns the fee estimate of
\* the L1-handler transaction of the message, paid fee 1, run on the state
\* after the resolved block.
C26_EstimateOnResolvedBlock ==
    (/\ LastIs("estimate_message_fee")
     /\ LastResolved # None
     /\ ~VersionLt(LastVersion, STARKNET_VERSION_0_13_1_1))
        => rpcLast[1].res =
              Ok(FeeEstimateOf(StateAsOf(chain, pendingBlock, LastResolved),
                               [l1_handler |-> rpcLast[1].arg[1], paid_fee_on_l1 |-> 1]))

\* The same for the pending block
C26_EstimateOnPending ==
    (/\ LastIs("estimate_message_fee")
     /\ LastResolved = Some(Pending)
     /\ ~VersionLt(LastVersion, STARKNET_VERSION_0_13_1_1))
        => rpcLast[1].res =
              Ok(FeeEstimateOf(StateAsOf(chain, pendingBlock, LastResolved),
                               [l1_handler |-> rpcLast[1].arg[1], paid_fee_on_l1 |-> 1]))

(***************************************************************************)
(* Properties of the gateway router                                        *)
(***************************************************************************)
\* C27: with the gateway enabled, POST /feeder/add_transaction goes to the
\* add-transaction handler.
C27_AddTransactionDispatched ==
    (/\ httpLast # None
     /\ gwConfig.gateway_enable
     /\ httpLast[1].method = "POST"
     /\ httpLast[1].uri_path = <<"", "feeder", "add_transaction">>)
        => httpLast[1].resp = <<"handle", "add_transaction">>

\* With the feeder gateway enabled, GET /feeder_gateway/get_block goes to its
\* handler.
C27_GetBlockDispatched ==
    (/\ httpLast # None
     /\ gwConfig.feeder_gateway_enable
     /\ httpLast[1].method = "GET"
     /\ httpLast[1].uri_path = <<"", "feeder_gateway", "get_block">>)
        => httpLast[1].resp = <<"handle", "get_block">>

(***************************************************************************)
(* Properties of the peer set                                              *)
(***************************************************************************)
QueueEntriesOf(peer) == {x \in queue : x.peer_id = peer}

\* C28: the queue and stats_by_peer are in one-to-one correspondence: every
\* peer of stats_by_peer has exactly one queue entry, carrying its current
\* score, and the queue has no entry of a peer that is not in stats_by_peer.
C28_QueueMatchesStats ==
    peerOutcome = "running" =>
        /\ \A p \in DOMAIN stats_by_peer :
              QueueEntriesOf(p) = {PeerSortedByScore_new(p, stats_by_peer[p])}
        /\ \A x \in queue : x.peer_id \in DOMAIN stats_by_peer

\* The queue never holds two entries of one peer or of one score.
C28_QueueKeysDistinct ==
    \A x \in queue : \A y \in queue :
        (x.peer_id = y.peer_id \/ x.score = y.score) => x = y

\* C29: the peer next_peer returns has the highest score of the peers in the
\* set at the time of the call.
C29_NextPeerHasHighestScore ==
    lastNext # None =>
        LET r == lastNext[1]
        IN /\ r.peer \in DOMAIN r.set
           /\ \A p \in DOMAIN r.set : score(r.set[p]) <= score(r.set[r.peer])

\* A success never lowers the score of a peer of the set; a failure and a
\* use in flight lower it.
C29_ScoreOrder ==
    \A p \in DOMAIN stats_by_peer :
        LET s == stats_by_peer[p]
        IN /\ score(increment_successes(s)) >= score(s)
           /\ score(increment_failures(s)) < score(s)
           /\ score(increment_in_use(s)) < score(s)

(***************************************************************************)
(* Properties of the mutexes of the peer set                               *)
(***************************************************************************)
\* The task a waiting task waits for: the holder of the mutex it is about to lock
BlockedBy(t) ==
    IF WaitsForGetMorePeers(t) THEN get_more_peers_mutex
    ELSE IF WaitsForInner(t) THEN inner_mutex
    ELSE NoTask

\* C30: a task that holds both mutexes took get_more_peers_mutex first, no
\* task waits for get_more_peers_mutex while it holds inner, and no two
\* tasks wait for each other.
C30_LockOrderNoDeadlock ==
    /\ \A t \in Tasks :
          (inner_mutex = t /\ get_more_peers_mutex = t)
              => lockOrder[t] = <<"get_more_peers_mutex", "inner">>
    /\ \A t \in Tasks : WaitsForGetMorePeers(t) => inner_mutex # t
    /\ \A t \in Tasks : \A u \in Tasks :
          ~(BlockedBy(t) = u /\ BlockedBy(u) = t)

\* One task holds both mutexes while another waits for inner and a third
\* waits for get_more_peers_mutex.
C30_Witness ==
    \E t \in Tasks : \E u \in Tasks : \E w \in Tasks :
        /\ inner_mutex = t /\ get_more_peers_mutex = t
        /\ lockPc[u] = "op_start"
        /\ WaitsForGetMorePeers(w)

\* C31: trace_transaction of the transaction at index i of a block it supports
\* re-executes the transactions 0..i-1 of the block and returns the trace of
\* transaction i, the first transaction of a block included.
C31_TraceOfTheTransactionItself ==
    (/\ LastIs("trace_transaction")
     /\ find_tx_hash_block(chain, rpcLast[1].arg) # None
     /\ ~VersionLt(LastVersion, FALLBACK_TO_SEQUENCER_WHEN_VERSION_BELOW))
        => LET h == rpcLast[1].arg
           IN rpcLast[1].res =
                 Ok([transaction_hash |-> h,
                     prev_txs |-> {TxHash(h[2], j) : j \in 0..(h[3] - 1)},
                     traced |-> h])

\* The answer of trace_transaction carries the hash that was asked for.
C31_TraceCarriesAskedHash ==
    (LastIs("trace_transaction") /\ rpcLast[1].res.ok)
        => rpcLast[1].res.val.transaction_hash = rpcLast[1].arg


(***************************************************************************)
(* Properties of state_advance under concurrent callers                    *)
(***************************************************************************)
AdvInFlight == {c \in AdvCallers : advLoaded[c] # None}

\* C32: the node state never moves backwards, and when no call is in flight
\* it is as many steps from Starting as calls were made, Shutdown at most.
C32_NoStepLostNoStepBack ==
    /\ MadaraStateOf(advState) = MadaraStateOf(advMax)
    /\ AdvInFlight = {} => MadaraStateOf(advState) = MadaraStateOf(advDone)

\* No call moves the state more than one step: the state is never further
\* from Starting than the number of calls completed
C32_NoStepAppliedTwice ==
    advState <= advDone

(***************************************************************************)
(* Properties of is_cancelled                                              *)
(***************************************************************************)
\* The tokens of the context were cancelled: cancel_global or cancel_local
\* was called in its scope or in a scope around it
TokenCancelled(ctx) ==
    \/ ctx.token_global \in tokCancelled
    \/ (ctx.token_local # None /\ ctx.token_local[1] \in tokCancelled)

\* C33: is_cancelled() is true only for a context whose tokens were cancelled
\* by cancel_local or cancel_global, whose id was given to service_remove, or
\* of a node in state Shutdown; it is false for every other context.
C33_CancelledOnlyWithCause ==
    \A c \in DOMAIN ctxs :
        is_cancelled(ctxs[c], tokCancelled, services, nodeState)
            => \/ TokenCancelled(ctxs[c])
               \/ ctxs[c].id \in svcRemoved
               \/ MadaraStateOf(nodeState) = Shutdown

\* For the context of a service that was added and not removed since, it is
\* true exactly when the tokens were cancelled or the node is in Shutdown.
C33_ActiveServiceCancelledOnlyWithCause ==
    \A c \in DOMAIN ctxs :
        (ctxs[c].id # Monitor /\ ctxs[c].id \in added)
            => (is_cancelled(ctxs[c], tokCancelled, services, nodeState)
                   <=> (TokenCancelled(ctxs[c]) \/ MadaraStateOf(nodeState) = Shutdown))

(***************************************************************************)
(* Properties of update_state_root                                         *)
(***************************************************************************)
\* The tries and the root a commit of the diff gives, computed in one order
ExpectedClassTrie ==
    [c \in DeclaredClasses |->
        IF cmDeclared[c] = None THEN None
        ELSE Some(PoseidonHasher_hash_elements("CONTRACT_CLASS_LEAF_V0", cmDeclared[c][1]))]

ExpectedContractTrie ==
    contract_trie_root(cmCsd, [c \in Contracts |-> [k \in StorageKeys |-> 0]],
                       [c \in Contracts |-> None],
                       [c \in Contracts |-> FieldElementZero],
                       [c \in Contracts |-> NonceDefault]).leaves

ExpectedStateRoot ==
    calculate_state_root(trie_root(ExpectedContractTrie), trie_root(ExpectedClassTrie))

\* C34: however the branches and the leaf computations are scheduled, the
\* call ends with the state root of the diff.
C34_SameRootInEverySchedule ==
    cmResult # None => (cmResult[1].ok /\ cmResult[1].val = ExpectedStateRoot)

\* The class trie a commit leaves is the same in whatever order the leaves
\* were collected.
C34_ClassTrieInEveryOrder ==
    cmPc.class \notin {"start", "has_class"} => cmClassTrie = ExpectedClassTrie

\* C37: no branch asks for a read view of a trie while its own write handle
\* of that trie is alive, so no branch blocks on itself.
C37_NoViewUnderOwnWriteHandle ==
    /\ cmPc.contract \notin {"blocked", "panicked"}
    /\ cmPc.class \notin {"blocked", "panicked"}

\* The two branches hold handles of different tries: none waits for the other.
C37_BranchesShareNoTrie ==
    /\ cmPc.contract \in {"start", "has_contract"} => cmHandles["contract_storage"] = "free"
    /\ cmPc.class = "start" => cmHandles["class"] = "free"

(***************************************************************************)
(* Properties of the messaging nonces                                      *)
(***************************************************************************)
\* The message of nonce n was cancelled on L1
CancelledOnL1(n) ==
    \E k \in DOMAIN l1Log :
        l1Log[k].nonce = n /\ CancellationTimestamp(MessagingHash(l1Log[k])) # 0

\* C35: every nonce of L1MessagingNonces is that of a message cancelled on L1
\* or of a message the mempool accepted.
C35_NonceCancelledOrSubmitted ==
    \A n \in nonces :
        CancelledOnL1(n) \/ \E k \in DOMAIN mempool : mempool[k] = n

\* Every nonce of L1MessagingNonces is that of a message cancelled on L1 or of
\* a message that was handed to the mempool, accepted or not.
C35_NonceCancelledOrAttempted ==
    \A n \in nonces : CancelledOnL1(n) \/ attempts[n] > 0


(***************************************************************************)
(* Properties of the shutdown of the supervisor                            *)
(***************************************************************************)

\* start is over: it returned Ok(()) or an error, or a panic went through it
StartOver == monPc \in {"returned_ok", "returned_err", "panicked"}

\* No task of the join set was aborted by the runtime
NoTaskAborted == \A t \in joinSet : t[2] # "cancelled"

\* Every service that was requested has been given to the monitor
RequestedAreRegistered == added \subseteq Registered

\* C36: after cancel_global, ServiceMonitor::start eventually returns and the
\* supervisor loop exits, when only services given to the monitor are requested
\* and the runtime aborts no task.
C36_StartReturnsAfterCancel ==
    [](NoTaskAborted /\ RequestedAreRegistered) => (GlobalCancelled ~> StartOver)

\* C36, the part about the tasks: after cancel_global every started task ends
\* and its end is taken by join_next, or start is over.
C36_TasksEndAfterCancel == GlobalCancelled ~> (StartOver \/ (running = {} /\ joinSet = {}))

\* C36, where start stays: the token is cancelled, no task is left, no message
\* is waiting, and status_request still has a bit set.
C36_LoopExitsWhenNoTaskLeft ==
    (GlobalCancelled /\ monPc = "loop" /\ running = {} /\ joinSet = {} /\ monRx = <<>>)
        => services = 0


(***************************************************************************)
(* Properties of the end of the L1 event stream                            *)
(***************************************************************************)

\* sync polls a stream that has given its last event
PollingFinishedStream == pc \in {"next", "pending"} /\ InnerStreamOver

\* The stream gives no error and no poll of it panics
StreamGivesNoError == lastOutcome \notin {"stream_err", "panic"}

\* C38: when the L1 event stream is exhausted the loop of sync terminates and
\* sync returns Ok(()), in the runs where the stream gives no error.
C38_ExhaustedStreamEndsSync ==
    []StreamGivesNoError => (PollingFinishedStream ~> (pc = "idle" /\ result = "ok"))

\* C38, what ends the loop: sync returns Ok(()) at the end of the stream only
\* through a cancellation of its context.
C38_OnlyCancellationEndsTheLoop ==
    [][(PollingFinishedStream /\ pc' = "idle" /\ result' = "ok") => lastOutcome' = "cancelled"]_vars

(***************************************************************************)
(* Properties of store_classes under parallel imports                      *)
(***************************************************************************)

\* The blocks that declare class k
DeclaringBlocks(k) == {b \in BlockNs : k \in parDeclares[b]}

\* Every store_classes call has returned
AllStored == \A b \in BlockNs : parPc[b] = "done"

\* The declaration block recorded for every declared class is the lowest of
\* the blocks that declare it
LowestBlockRecorded ==
    \A k \in Classes :
        DeclaringBlocks(k) # {} =>
            /\ k \in DOMAIN classDb["ClassInfo"]
            /\ classDb["ClassInfo"][k].block_id = BlockN(CHOOSE b \in DeclaringBlocks(k) : \A o \in DeclaringBlocks(k) : b <= o)

\* C39: when the store_classes calls of blocks imported in parallel have all
\* returned, the block recorded for a class is the lowest block declaring it,
\* whatever the interleaving of the calls.
C39_LowestBlockInEveryInterleaving == AllStored => LowestBlockRecorded

\* C39, the calls one after the other: in whatever order the calls are made,
\* the lowest declaring block is recorded when no check of one call falls
\* between the check and the write of another.
C39_LowestBlockInEveryOrder == (AllStored /\ ~parOverlap) => LowestBlockRecorded

(***************************************************************************)
(* Properties of the last-update timestamp                                 *)
(***************************************************************************)

\* An update_gas_price call has just returned an error to the worker
UpdateReturnedErr == gasPc = "check" /\ updateResult = "err"

\* C40: an update_gas_price call that returns an error leaves the last-update
\* timestamp as it was when the call began.
C40_FailedUpdateLeavesTimestamp == UpdateReturnedErr => lastUpdateTs = tsAtCall

\* C40, the failed fetch: a call that returns the error of get_fee_history
\* leaves the timestamp as it was, and apart from the start of the worker the
\* timestamp moves only where update_gas_price has written prices.
C40_TimestampMovesOnlyWithPrices ==
    /\ lastUpdateTs # tsAtCall => (lastLanded # None /\ lastUpdateTs = lastLanded[1])
    /\ (UpdateReturnedErr /\ lastLanded = None) => lastUpdateTs = tsAtCall

====
